---- MODULE Spec2Model ----
(***************************************************************************)
(* The Luz interpreter (class Luz of src/unnamed/part_000): a fused        *)
(* recursive-descent parser and evaluator over a flat token array.         *)
(*                                                                         *)
(* The interpreter state (tokens, pos, vars, the JS heap of LuzVar         *)
(* objects and of arrays / sets, the output written through logFn) is      *)
(* threaded through one operator per method of the class.  A thrown        *)
(* object is the field exc of the state a method returns; every caller     *)
(* propagates it unless the code has a try/catch there.  One action of     *)
(* the specification is one turn of the statement loop of run().           *)
(*                                                                         *)
(* Numbers are integers (plus NaN, +inf, -inf); a JS object reference is   *)
(* an index into heap (arrays, sets) or cells (LuzVar objects).  The       *)
(* wrapper object {__type, __value} is the pair (t, n) of a value: two     *)
(* wrappers of one array are told apart only by their __type.              *)
(***************************************************************************)
EXTENDS Integers, Sequences, FiniteSets, TLC

\* ------------------------------------------------------------------ bounds
MaxNumLit == 9
MaxIter == 6

\* ------------------------------------------------------------ exit codes
Success == 0
SystaxError == 3
SemanticError == 4
RuntimeError == 5
InvalidInstruction == 8

\* ------------------------------------------------------------------ values
\* n is the number, or the object a wrapper refers to, or the start of a range,
\* whose end is e
V(t, n, s) == [t |-> t, n |-> n, s |-> s, e |-> 0]
Null == V("null", 0, "")
Undef == V("undef", 0, "")
NaN == V("nan", 0, "")
Num(n) == V("num", n, "")
Inf(sign) == V("inf", sign, "")
Bool(b) == V("bool", IF b THEN 1 ELSE 0, "")
Str(s) == V("str", 0, s)

isStruct(v) == v.t \in {"arr", "vec", "set"}
isNumber(v) == v.t \in {"num", "nan", "inf", "frac"}

Truthy(v) ==
  CASE v.t \in {"null", "undef", "nan"} -> FALSE
    [] v.t = "bool" -> v.n = 1
    [] v.t = "num" -> v.n # 0
    [] v.t = "str" -> v.s # ""
    [] OTHER -> TRUE

JsTypeof(v) ==
  CASE isNumber(v) -> "number"
    [] v.t = "str" -> "string"
    [] v.t = "bool" -> "boolean"
    [] v.t = "undef" -> "undefined"
    [] OTHER -> "object"

\* a JS array or LuzSet object on the heap
Cell(elems, last) == [elems |-> elems, last |-> last]

\* a LuzVar object {value, type, const}
LuzVar(value, type, const) == [value |-> value, type |-> type, const |-> const]

EmptyMap == [n \in {} |-> 0]

\* ------------------------------------------------------------------ tokens
KEYWORDS == {"if", "else", "loop", "in", "break", "continue", "fn", "return",
             "const", "del", "has", "as", "lenof", "typeof", "copyof",
             "sizeof", "firstof", "lastof", "log", "logln", "get", "getln"}

TYPES == {"num", "xl", "bool", "str", "null", "maybe", "arr", "vec", "set",
          "inf", "ran", "xran"}

Idents == {"a", "b", "c", "i", "j", "k", "n", "r", "v", "w", "x", "y"}

NumberTokens == {ToString(n) : n \in 0..MaxNumLit}
NumberOf(tok) == CHOOSE n \in 0..MaxNumLit : ToString(n) = tok

\* string literal tokens of the programs, with the text between the quotes
StrLit == ("'A'" :> "A") @@ ("'B'" :> "B") @@ ("'L'" :> "L") @@ ("'R'" :> "R")
          @@ ("'T'" :> "T") @@ ("'D'" :> "D") @@ ("'E'" :> "E") @@ ("'Z'" :> "Z")
          @@ ("'}'" :> "}") @@ ("''" :> "") @@ ("' '" :> " ")

\* string literal tokens with interpolation blocks, as getStrToken cuts them:
\* the text before each block, the tokens of the block, and the text after
\* the last block
StrParts ==
  ("'A{x}B'" :> <<[text |-> "A", expression |-> <<"x">>], [text |-> "B", expression |-> <<>>]>>)
  @@ ("'{y}'" :> <<[text |-> "", expression |-> <<"y">>]>>)
  @@ ("'{break}'" :> <<[text |-> "", expression |-> <<"break">>]>>)
  @@ ("'{continue}'" :> <<[text |-> "", expression |-> <<"continue">>]>>)

\* the tokens (++|--)lvalue and lvalue(++|--): the operator and what
\* tokensRegExp cuts the l-value into
IncDecTokens ==
  ("++x" :> [operator |-> "++", prefix |-> TRUE, variablePart |-> <<"x">>])
  @@ ("--x" :> [operator |-> "--", prefix |-> TRUE, variablePart |-> <<"x">>])
  @@ ("x++" :> [operator |-> "++", prefix |-> FALSE, variablePart |-> <<"x">>])
  @@ ("++c" :> [operator |-> "++", prefix |-> TRUE, variablePart |-> <<"c">>])
  @@ ("++v[0]" :> [operator |-> "++", prefix |-> TRUE, variablePart |-> <<"v", "[", "0", "]">>])
  @@ ("++v[y]" :> [operator |-> "++", prefix |-> TRUE, variablePart |-> <<"v", "[", "y", "]">>])
  @@ ("++v[break]" :> [operator |-> "++", prefix |-> TRUE,
                       variablePart |-> <<"v", "[", "break", "]">>])

AssignOps == {"=", "+=", "-=", "*=", "/=", "~/=", "%=", "^=", "**="}

isNumberToken(tok) == tok \in NumberTokens
isStrToken(tok) == tok \in DOMAIN StrLit \cup DOMAIN StrParts
isBooleanToken(tok) == tok \in {"true", "false"}
isNullToken(tok) == tok = "null"
isMaybeToken(tok) == tok = "maybe"
isInfToken(tok) == tok = "inf"
isComment(tok) == tok \in {"#c"}

\* /^[\w\$...]+$/: every token made of word characters only
isVariableToken(tok) ==
  tok \in Idents \cup KEYWORDS \cup TYPES \cup NumberTokens
          \cup {"true", "false", "null", "maybe", "inf"}

\* isExtraLong holds of no token of the programs (no xl literals)
isLiteralToken(tok) ==
  \/ isNumberToken(tok) \/ isStrToken(tok)
  \/ isBooleanToken(tok) \/ isNullToken(tok) \/ isMaybeToken(tok)
  \/ isInfToken(tok) \/ tok \in {"[", "![", "@{"}

\* ------------------------------------------------------- interpreter state
NoExc == [k |-> "none", code |-> 0, val |-> Null]
NoLv == [ok |-> FALSE, name |-> "", indices |-> <<>>, cell |-> 0]

Ok(s) == s.exc.k = "none"
Ret(s, v) == [s EXCEPT !.val = v]
\* throw {message, code}
Throw(s, c) == [s EXCEPT !.exc = [k |-> "luz", code |-> c, val |-> Null]]
\* throw new Error(...), or a TypeError of the JS runtime: no code property
ThrowJs(s) == [s EXCEPT !.exc = [k |-> "js", code |-> 0, val |-> Null]]
ThrowBreak(s, v) == [s EXCEPT !.exc = [k |-> "break", code |-> 0, val |-> v]]
ThrowContinue(s) == [s EXCEPT !.exc = [k |-> "continue", code |-> 0, val |-> Null]]
\* a construct of the language this model does not cover, or a loop cut at MaxIter
Unmodelled(s) == [s EXCEPT !.exc = [k |-> "unmodelled", code |-> 0, val |-> Null]]
\* a while (true) whose turn changes nothing and leaves by no path: the call
\* neither returns nor throws
Spins(s) == [s EXCEPT !.exc = [k |-> "spins", code |-> 0, val |-> Null]]
Clear(s) == [s EXCEPT !.exc = NoExc]
isSemantic(e) == e.k = "luz" /\ e.code = SemanticError

tokAt(s, p) == IF p >= 0 /\ p < Len(s.tokens) THEN s.tokens[p + 1] ELSE ""
peek(s, offset) == tokAt(s, s.pos + offset)
next(s) == [s EXCEPT !.pos = @ + 1]

\* --------------------------------------------------------- JS value kernel
NumParseMax == 20

\* Number(x) of a primitive
ToNum(v) ==
  CASE v.t \in {"num", "nan", "inf"} -> v
    [] v.t = "bool" -> Num(v.n)
    [] v.t = "null" -> Num(0)
    [] v.t = "str" ->
         IF v.s = "" THEN Num(0)
         ELSE IF \E n \in -NumParseMax..NumParseMax : ToString(n) = v.s
              THEN Num(CHOOSE n \in -NumParseMax..NumParseMax : ToString(n) = v.s)
              ELSE NaN
    [] OTHER -> NaN

\* String(x) of a primitive; a wrapper object prints as a plain JS object
JsString(v) ==
  CASE v.t = "num" -> ToString(v.n)
    [] v.t = "nan" -> "NaN"
    [] v.t = "inf" -> IF v.n < 0 THEN "-Infinity" ELSE "Infinity"
    [] v.t = "bool" -> IF v.n = 1 THEN "true" ELSE "false"
    [] v.t = "str" -> v.s
    [] v.t = "null" -> "null"
    [] v.t = "undef" -> "undefined"
    [] OTHER -> "[object Object]"

NumAdd(a, b) ==
  IF a.t = "nan" \/ b.t = "nan" THEN NaN
  ELSE IF a.t = "inf" /\ b.t = "inf" THEN (IF a.n = b.n THEN a ELSE NaN)
  ELSE IF a.t = "inf" THEN a
  ELSE IF b.t = "inf" THEN b
  ELSE Num(a.n + b.n)

NumNeg(a) ==
  CASE a.t = "num" -> Num(0 - a.n)
    [] a.t = "inf" -> Inf(0 - a.n)
    [] OTHER -> a

Sign(n) == IF n > 0 THEN 1 ELSE IF n < 0 THEN -1 ELSE 0

\* new XRange(start, end) (__type "xran") and new Range(start, end) (__type "ran")
XRange(start, end) == [V("xran", start, "") EXCEPT !.e = end]
Range(start, end) == [V("ran", start, "") EXCEPT !.e = end]

\* the generators XRange.generate and Range.generate, from current on
RECURSIVE generate(_, _), generateEndInclusive(_, _)
generateEndInclusive(r, current) ==
  LET step == Sign(r.e - r.n)
  IN IF r.n = r.e THEN <<Num(current)>>
     ELSE IF (IF step > 0 THEN current <= r.e ELSE current >= r.e)
          THEN <<Num(current)>> \o generateEndInclusive(r, current + step) ELSE <<>>
generate(r, current) ==
  LET step == Sign(r.e - r.n)
  IN IF r.t = "xran"
     THEN (IF (IF step > 0 THEN current < r.e ELSE current > r.e)
           THEN <<Num(current)>> \o generate(r, current + step) ELSE <<>>)
     ELSE IF r.n = r.e THEN <<Num(current)>>
     ELSE IF (IF step > 0 THEN current <= r.e ELSE current >= r.e)
          THEN <<Num(current)>> \o generate(r, current + step) ELSE <<>>

NumMul(a, b) ==
  IF a.t = "nan" \/ b.t = "nan" THEN NaN
  ELSE IF a.t = "inf" \/ b.t = "inf"
       THEN (IF Sign(a.n) * Sign(b.n) = 0 THEN NaN ELSE Inf(Sign(a.n) * Sign(b.n)))
  ELSE Num(a.n * b.n)

\* a / b; a quotient that is no integer has no representation here
NumDiv(a, b) ==
  IF a.t = "nan" \/ b.t = "nan" THEN NaN
  ELSE IF a.t = "inf" THEN (IF b.t = "inf" THEN NaN
                            ELSE Inf(a.n * (IF b.n < 0 THEN -1 ELSE 1)))
  ELSE IF b.t = "inf" THEN Num(0)
  ELSE IF b.n = 0 THEN (IF a.n = 0 THEN NaN ELSE Inf(Sign(a.n)))
  ELSE IF ((Sign(a.n) * a.n) % (Sign(b.n) * b.n)) = 0
       THEN Num(Sign(a.n) * Sign(b.n) * ((Sign(a.n) * a.n) \div (Sign(b.n) * b.n)))
       ELSE V("frac", 0, "")

\* a + b, a - b, a * b, a / b of JS on primitives and wrapper objects; op is the
\* binary operator or the compound assignment operator made of it
JsArith(op, a, b) ==
  CASE op \in {"+", "+="} ->
         (IF a.t = "str" \/ b.t = "str" \/ isStruct(a) \/ isStruct(b)
          THEN Str(JsString(a) \o JsString(b))
          ELSE NumAdd(ToNum(a), ToNum(b)))
    [] op \in {"-", "-="} -> NumAdd(ToNum(a), NumNeg(ToNum(b)))
    [] op \in {"*", "*="} -> NumMul(ToNum(a), ToNum(b))
    [] op \in {"/", "/="} -> NumDiv(ToNum(a), ToNum(b))

\* === of JS; an object equals itself only
StrictEq(a, b) == a.t # "nan" /\ a = b
\* === on the values getUnderlyingValue returns: the arrays, not the wrappers
UnderlyingEq(a, b) ==
  IF isStruct(a) /\ isStruct(b) THEN a.n = b.n
  ELSE IF isStruct(a) \/ isStruct(b) THEN FALSE
  ELSE StrictEq(a, b)

\* arr[idx] of a JS array
ArrGet(elems, idx) ==
  IF idx >= 0 /\ idx < Len(elems) THEN elems[idx + 1] ELSE Undef
\* arr[idx] = v of a JS array: grows the array, leaving holes, when idx >= length
ArrSet(elems, idx, v) ==
  IF idx < 0 THEN elems
  ELSE IF idx < Len(elems) THEN [elems EXCEPT ![idx + 1] = v]
  ELSE [j \in 1..(idx + 1) |->
          IF j <= Len(elems) THEN elems[j] ELSE IF j = idx + 1 THEN v ELSE Undef]
\* arr.splice(idx, 1)
ArrSplice(elems, idx) ==
  LET at == IF idx < 0 THEN (IF Len(elems) + idx < 0 THEN 0 ELSE Len(elems) + idx)
            ELSE idx
  IN IF at >= Len(elems) THEN elems
     ELSE [j \in 1..(Len(elems) - 1) |-> IF j <= at THEN elems[j] ELSE elems[j + 1]]

SeqHas(elems, v) == \E j \in 1..Len(elems) : StrictEq(elems[j], v)
LastIndexOf(elems, v) ==
  IF SeqHas(elems, v)
  THEN CHOOSE j \in 1..Len(elems) :
         StrictEq(elems[j], v) /\ \A m \in (j + 1)..Len(elems) : ~StrictEq(elems[m], v)
  ELSE 0
FirstIndexOf(elems, v) ==
  IF SeqHas(elems, v)
  THEN CHOOSE j \in 1..Len(elems) :
         StrictEq(elems[j], v) /\ \A m \in 1..(j - 1) : ~StrictEq(elems[m], v)
  ELSE 0
RemoveAt(elems, j) ==
  IF j = 0 THEN elems ELSE SubSeq(elems, 1, j - 1) \o SubSeq(elems, j + 1, Len(elems))

\* class LuzSet
RECURSIVE Dedup(_)
Dedup(elems) ==
  IF elems = <<>> THEN <<>>
  ELSE LET front == Dedup(SubSeq(elems, 1, Len(elems) - 1))
           x == elems[Len(elems)]
       IN IF \E j \in 1..Len(front) : front[j] = x THEN front ELSE Append(front, x)
LuzSetNew(elems) ==
  Cell(Dedup(elems), IF elems = <<>> THEN Undef ELSE elems[Len(elems)])
LuzSetAdd(cell, x) ==
  Cell(IF \E j \in 1..Len(cell.elems) : cell.elems[j] = x
       THEN cell.elems ELSE Append(cell.elems, x), x)
LuzSetDelete(cell, x) ==
  IF \E j \in 1..Len(cell.elems) : cell.elems[j] = x
  THEN LET rest == RemoveAt(cell.elems, CHOOSE j \in 1..Len(cell.elems) : cell.elems[j] = x)
       IN Cell(rest, IF StrictEq(x, cell.last)
                     THEN (IF rest = <<>> THEN Undef ELSE rest[Len(rest)])
                     ELSE cell.last)
  ELSE cell

getType(v) ==
  CASE v.t = "xran" -> "ran"
    [] v.t = "ran" -> "xran"
    [] isStruct(v) -> v.t
    [] v.t = "num" -> "num"
    [] v.t \in {"nan", "inf", "frac"} -> IF v.t = "inf" THEN "inf" ELSE
                                        IF v.t = "nan" THEN "inf" ELSE "num"
    [] v.t = "bool" -> "bool"
    [] v.t = "str" -> "str"
    [] OTHER -> "null"

RECURSIVE asStr(_, _, _), joinStr(_, _, _, _)
joinStr(heap, elems, visited, hole) ==
  IF elems = <<>> THEN ""
  ELSE LET one(x) == IF x.t = "undef" THEN hole ELSE asStr(heap, x, visited)
       IN IF Len(elems) = 1 THEN one(elems[1])
          ELSE one(elems[1]) \o " " \o joinStr(heap, Tail(elems), visited, hole)
\* asStr(value, visited), reading the arrays of heap
asStr(heap, v, visited) ==
  IF v \in visited
  THEN (IF v.t = "set" THEN "@{...}" ELSE IF v.t = "vec" THEN "![...]" ELSE "[...]")
  ELSE CASE v.t = "xran" -> ToString(v.n) \o ".." \o ToString(v.e)
         [] v.t = "ran" -> ToString(v.n) \o "..=" \o ToString(v.e)
         [] v.t = "set" -> "@{" \o joinStr(heap, heap[v.n].elems, visited \cup {v}, "undefined") \o "}"
         [] v.t = "vec" -> "![" \o joinStr(heap, heap[v.n].elems, visited \cup {v}, "null") \o "]"
         [] v.t \in {"arr", "rawarr"} -> "[" \o joinStr(heap, heap[v.n].elems, visited \cup {v}, "") \o "]"
         [] v.t = "nan" -> "null"
         [] v.t = "inf" -> IF v.n < 0 THEN "-inf" ELSE "inf"
         [] OTHER -> JsString(v)

\* ------------------------------------------------------------ heap, scope
\* new Arr / Vec / LuzSet: a wrapper object of a new array or LuzSet
Alloc(s, type, cell) == Ret([s EXCEPT !.heap = Append(@, cell)], V(type, Len(s.heap) + 1, ""))
elemsOf(s, v) == s.heap[v.n].elems
setElems(s, v, e) == [s EXCEPT !.heap[v.n].elems = e]

varHas(s, name) == name \in DOMAIN s.vars
varGet(s, name) == s.cells[s.vars[name]]
\* this.vars.set(name, {...}): a fresh LuzVar object
varSetNew(s, name, lv) ==
  [s EXCEPT !.cells = Append(@, lv),
            !.vars = [n \in DOMAIN s.vars \cup {name} |->
                        IF n = name THEN Len(s.cells) + 1 ELSE s.vars[n]]]
varDelete(s, name) == [s EXCEPT !.vars = [n \in DOMAIN s.vars \ {name} |-> s.vars[n]]]

\* ------------------------------------------------------------- evaluator
RECURSIVE parseExpression(_), parseAssignment(_), parseUnary(_), parsePrimary(_),
          parseIfExpression(_), parseBlockLoop(_, _), lvalueIndices(_, _),
          infiniteLoop(_, _, _), forInLoop(_, _, _, _, _), executeWhileLoop(_, _, _, _, _),
          loopBodyStatements(_, _), skipElseIfChain(_), assignIndices(_, _),
          parseLogicalOrLoop(_), parseNullishLoop(_), parseLogicalAndLoop(_),
          parseEqualityLoop(_), parseComparisonLoop(_), parseAddSubLoop(_),
          parseMulDivLoop(_), parseAsLoop(_), parseRangeLoop(_), chainFrom(_, _, _),
          literalElements(_, _, _), variableChain(_, _), blockStatements(_, _),
          replicate(_, _, _, _, _, _), getStrToken(_, _, _)

\* const x = this.m(); ...   is written
\*   CHOOSE ret \in { ... x ... : x \in {m(s)} } : TRUE
\* the state a call returns is computed once, where the code makes the call,
\* and ret is what the method returns

\* Every method of the chain parseRange .. parseAs begins by calling the next
\* method of the chain at the same position and then runs its own loop on what
\* that call returned, so the method of level top returns what the loops of
\* the levels 1 (parseAs) .. top make, innermost first, of parseUnary's result.
\* A thrown object ends the climb where it is thrown.
RECURSIVE Climb(_, _)
\* the methods of the chain, by their level
Level ==
  [parseAs |-> 1, parseBitwise |-> 2, parseMulDiv |-> 3, parsePow |-> 4, parseAddSub |-> 5,
   parseComparison |-> 6, parseEquality |-> 7, parseLogicalAnd |-> 8, parseNullish |-> 9,
   parseLogicalOr |-> 10, parseRange |-> 11]

\* a catch clause sees every thrown object; "unmodelled" and "spins" are no
\* thrown objects
Caught(s) == s.exc.k \notin {"none", "unmodelled", "spins"}

evalIndex(s, indexExpr) ==
  IF indexExpr.t \in {"ran", "xran"} THEN Throw(s, SemanticError)
  ELSE IF indexExpr.t = "null" THEN ThrowJs(s)
  ELSE IF indexExpr.t = "num" THEN Ret(s, indexExpr)
  ELSE IF isNumber(indexExpr) THEN Unmodelled(s)
  ELSE Throw(s, SemanticError)

parseStatement(s) ==
  (CHOOSE ret \in { CASE ~Ok(e) -> e
           [] peek(e, 0) = ";" -> next(e)
           [] OTHER -> e : e \in {parseExpression(s)} } : TRUE)

RECURSIVE skipExpression(_, _)
skipExpression(s, depth) ==
  LET token == peek(s, 0)
  IN IF s.pos >= Len(s.tokens) THEN s
     ELSE IF depth = 0 /\ token \in {"else", "}", "]", ")", ";", ",", "=>", "then", "do"}
          THEN s
     ELSE skipExpression(next(s),
            depth + (IF token \in {"(", "[", "{"} THEN 1 ELSE 0)
                  - (IF token \in {")", "]", "}"} THEN 1 ELSE 0))

RECURSIVE skipBlock(_, _)
skipBlock(s, depth) ==
  IF s.pos < Len(s.tokens) /\ depth > 0
  THEN skipBlock(next(s),
         depth + (IF peek(s, 0) = "{" THEN 1 ELSE 0) - (IF peek(s, 0) = "}" THEN 1 ELSE 0))
  ELSE s

RECURSIVE skipBrackets(_, _, _), checkLValueLoop(_, _)
skipBrackets(s, p, depth) ==
  IF p < Len(s.tokens) /\ depth > 0
  THEN skipBrackets(s, p + 1,
         depth + (IF tokAt(s, p) = "[" THEN 1 ELSE 0) - (IF tokAt(s, p) = "]" THEN 1 ELSE 0))
  ELSE <<p, depth>>
checkLValueLoop(s, p) ==
  IF tokAt(s, p) = "["
  THEN LET r == skipBrackets(s, p + 1, 1)
       IN IF r[2] # 0 THEN -1 ELSE checkLValueLoop(s, r[1])
  ELSE p
\* this.tokens[pos] past the end is undefined, which the regex of
\* isVariableToken accepts as the text "undefined"
checkLValueStructure(s, startPos) ==
  IF startPos < Len(s.tokens) /\ ~isVariableToken(tokAt(s, startPos)) THEN -1
  ELSE checkLValueLoop(s, startPos + 1)

\* container.__value[idx] while walking an index chain
stepInto(s, container, idx) ==
  IF container.t \in {"arr", "vec"} THEN ArrGet(elemsOf(s, container), idx) ELSE Undef

RECURSIVE lvGetLoop(_, _, _, _), lvWalk(_, _, _, _, _)
lvGetLoop(s, value, indices, k) ==
  IF k > Len(indices) THEN Ret(s, value)
  ELSE LET ei == evalIndex(s, indices[k])
       IN IF ~Ok(ei) THEN ei
          ELSE IF value.t \in {"arr", "vec"}
               THEN lvGetLoop(s, ArrGet(elemsOf(s, value), ei.val.n), indices, k + 1)
               ELSE Throw(s, SemanticError)
\* the get closure of tryParseLValue: reads through the LuzVar captured at parse time
LvGet(s, lv) == lvGetLoop(s, s.cells[lv.cell].value, lv.indices, 1)

\* walks the first `upto` indices; val is the container reached
lvWalk(s, container, indices, k, upto) ==
  IF k > upto THEN Ret(s, container)
  ELSE LET ei == evalIndex(s, indices[k])
       IN IF ~Ok(ei) THEN ei
          ELSE IF isStruct(container)
               THEN lvWalk(s, stepInto(s, container, ei.val.n), indices, k + 1, upto)
               ELSE Throw(s, SemanticError)

\* the set closure of tryParseLValue
LvSet(s, lv, newValue) ==
  IF ~varHas(s, lv.name) THEN ThrowJs(s)
  ELSE IF varGet(s, lv.name).const THEN Throw(s, SemanticError)
  ELSE IF lv.indices = <<>>
       THEN [s EXCEPT !.cells[s.vars[lv.name]].value = newValue]
  ELSE LET n == Len(lv.indices)
           w == lvWalk(s, varGet(s, lv.name).value, lv.indices, 1, n - 1)
           li == evalIndex(w, lv.indices[n])
       IN IF ~Ok(w) THEN w
          ELSE IF ~Ok(li) THEN li
          ELSE IF w.val.t \in {"arr", "vec"}
               THEN setElems(s, w.val, ArrSet(elemsOf(s, w.val), li.val.n, newValue))
               ELSE Throw(s, SemanticError)

\* the delete closure of tryParseLValue
LvDelete(s, lv) ==
  IF ~varHas(s, lv.name) THEN ThrowJs(s)
  ELSE IF lv.indices = <<>> THEN varDelete(s, lv.name)
  ELSE LET n == Len(lv.indices)
           w == lvWalk(s, varGet(s, lv.name).value, lv.indices, 1, n - 1)
           li == evalIndex(w, lv.indices[n])
       IN IF ~Ok(w) THEN w
          ELSE IF ~Ok(li) THEN li
          ELSE IF w.val.t = "vec"
               THEN setElems(s, w.val, ArrSplice(elemsOf(s, w.val), li.val.n))
               ELSE Throw(s, SemanticError)

lvalueIndices(s, acc) ==
  CASE peek(s, 0) = "[" ->
         (CHOOSE ret \in { CASE ~Ok(e) -> e
                  [] peek(e, 0) # "]" -> ThrowJs(e)
                  [] OTHER -> lvalueIndices(next(e), Append(acc, e.val)) :
                e \in {parseExpression(next(s))} } : TRUE)
    [] peek(s, 0) = "." ->
         (IF ~isNumberToken(peek(s, 1)) THEN ThrowJs(next(next(s)))
          ELSE lvalueIndices(next(next(s)), Append(acc, Num(NumberOf(peek(s, 1))))))
    [] OTHER -> [s EXCEPT !.idx = acc]

\* the try block of tryParseLValue, once the index chain is parsed
lvalueFound(ix, varName) ==
  CASE ~Ok(ix) -> ix
    [] ~varHas(ix, varName) -> ThrowJs(ix)
    [] varGet(ix, varName).const -> Throw(ix, SemanticError)
    [] OTHER -> [ix EXCEPT !.lv = [ok |-> TRUE, name |-> varName,
                                   indices |-> ix.idx, cell |-> ix.vars[varName]]]

tryParseLValue(s) ==
  IF ~isVariableToken(peek(s, 0)) THEN [s EXCEPT !.lv = NoLv]
  ELSE (CHOOSE ret \in { CASE ~Caught(body) -> body
                [] isSemantic(body.exc) ->
                     [body EXCEPT !.pos = s.pos, !.vars = s.vars, !.lv = NoLv]
                [] OTHER ->
                     [body EXCEPT !.pos = s.pos, !.vars = s.vars, !.lv = NoLv, !.exc = NoExc] :
              body \in {lvalueFound(lvalueIndices(next(s), <<>>), peek(s, 0))} } : TRUE)

\* the statements of the try block of parseSwap after both sides are parsed
swapValues(l, r) ==
  LET a == LvGet(r, l.lv)
      b == LvGet(r, r.lv)
      s1 == LvSet(r, l.lv, b.val)
      s2 == LvSet(s1, r.lv, a.val)
  IN CASE ~l.lv.ok -> ThrowJs(r)
       [] ~Ok(a) -> a
       [] ~r.lv.ok -> ThrowJs(r)
       [] ~Ok(b) -> b
       [] ~Ok(s1) -> s1
       [] ~Ok(s2) -> s2
       [] OTHER -> Ret(s2, Bool(TRUE))

swapTry(s) ==
  (CHOOSE ret \in { IF ~Ok(l) THEN l
         ELSE (CHOOSE ret \in { IF ~Ok(r) THEN r ELSE swapValues(l, r) :
                     r \in {tryParseLValue(next(l))} } : TRUE) :
         l \in {tryParseLValue(s)} } : TRUE)

parseSwap(s) ==
  LET startPos == s.pos
      leftEnd == checkLValueStructure(s, startPos)
      rightEnd == checkLValueStructure(s, leftEnd + 1)
  IN CASE leftEnd = -1 -> Ret(s, Null)
       [] tokAt(s, leftEnd) # "<=>" -> Ret(s, Null)
       [] rightEnd = -1 -> Ret(s, Null)
       [] OTHER ->
            (CHOOSE ret \in { CASE ~Caught(body) -> body
                     [] isSemantic(body.exc) ->
                          [body EXCEPT !.pos = startPos, !.vars = s.vars]
                     [] OTHER ->
                          Ret([body EXCEPT !.pos = startPos, !.vars = s.vars, !.exc = NoExc],
                              Null) :
                   body \in {swapTry(s)} } : TRUE)

parseExpression(s) ==
  CASE s.isSkipping -> Ret(skipExpression(s, 0), Null)
    [] isComment(peek(s, 0)) -> Ret(next(s), Undef)
    [] OTHER -> (CHOOSE ret \in { CASE ~Ok(sw) -> sw
                         [] sw.val # Null -> sw
                         [] OTHER -> parseAssignment(sw) : sw \in {parseSwap(s)} } : TRUE)

parseBlockLoop(s, lastVal) ==
  IF peek(s, 0) = "}" THEN Ret(s, lastVal)
  ELSE (CHOOSE ret \in { IF ~Ok(e) THEN e
              ELSE parseBlockLoop(IF peek(e, 0) = ";" THEN next(e) ELSE e, e.val) :
              e \in {parseExpression(s)} } : TRUE)

parseBlock(s) ==
  (CHOOSE ret \in { IF ~Ok(b) THEN b
         ELSE [next(b) EXCEPT !.vars = [n \in (DOMAIN b.vars) \cap (DOMAIN s.vars) |-> b.vars[n]]] :
         b \in {parseBlockLoop(next(s), Null)} } : TRUE)

\* ---------------------------------------------------------------- loops
parseLoopBody(s) ==
  LET e == skipBlock(s, 1)
  IN [start |-> s.pos, end |-> e.pos - 1, after |-> e.pos]

\* the finally clause of executeLoopBody, given the state the body ended in
LoopBodyCleanupOnSuccessOnly(r, varsBefore) ==
  IF Ok(r) THEN [n \in (DOMAIN r.vars) \cap varsBefore |-> r.vars[n]] ELSE r.vars
LoopBodyCleanup(r, varsBefore) ==
  [n \in (DOMAIN r.vars) \cap varsBefore |-> r.vars[n]]

loopBodyStatements(s, body) ==
  IF s.pos < body.end
  THEN (CHOOSE ret \in { IF ~Ok(e) THEN e ELSE loopBodyStatements(e, body) :
              e \in {parseStatement(s)} } : TRUE)
  ELSE s

\* iterlog records, for every iteration, the names bound when it started, the
\* names bound when its last statement ended, the names left by the cleanup,
\* and how the body ended (exc.k)
executeLoopBody(s, body) ==
  (CHOOSE ret \in { [r EXCEPT !.vars = LoopBodyCleanup(r, DOMAIN s.vars),
                   !.iterlog = Append(@, [before |-> DOMAIN s.vars,
                                          atEnd |-> DOMAIN r.vars,
                                          after |-> DOMAIN LoopBodyCleanup(r, DOMAIN s.vars),
                                          how |-> r.exc.k])] :
         r \in {loopBodyStatements(Ret([s EXCEPT !.pos = body.start], Null), body)} } : TRUE)

infiniteLoop(s, body, n) ==
  IF n >= MaxIter THEN Unmodelled(s)
  ELSE (CHOOSE ret \in { CASE Ok(r) -> infiniteLoop(r, body, n + 1)
                [] r.exc.k = "break" ->
                     Ret([r EXCEPT !.exc = NoExc, !.pos = body.end + 1], r.exc.val)
                [] OTHER -> r :
              r \in {executeLoopBody([s EXCEPT !.pos = body.start], body)} } : TRUE)

parseInfiniteLoop(s) ==
  IF peek(s, 0) # "{" THEN Throw(s, SystaxError)
  ELSE LET body == parseLoopBody(next(s))
       IN infiniteLoop([s EXCEPT !.pos = body.after], body, 0)

\* what the iterator of getIterableElements(iterable) has to yield in state s
getIterableElements(s, iterable) ==
  CASE iterable.t \in {"ran", "xran"} -> generate(iterable, iterable.n)
    [] iterable.t = "str" -> (IF iterable.s = "" THEN <<>> ELSE <<iterable>>)
    [] OTHER -> elemsOf(s, iterable)

\* for (const el of elements): a JS array iterator reads the live array
forInLoop(s, variable, iterable, body, k) ==
  CASE k >= Len(getIterableElements(s, iterable)) -> Ret(varDelete(s, variable), Null)
    [] k >= MaxIter -> Unmodelled(s)
    [] OTHER ->
         (CHOOSE ret \in { CASE Ok(r) \/ r.exc.k = "continue" ->
                       forInLoop(Clear(r), variable, iterable, body, k + 1)
                  [] r.exc.k = "break" -> Ret(varDelete(Clear(r), variable), r.exc.val)
                  [] OTHER -> r :
                r \in {executeLoopBody(
                         varSetNew(s, variable,
                                   LuzVar(ArrGet(getIterableElements(s, iterable), k),
                                          "undefined", FALSE)),
                         body)} } : TRUE)

executeForInLoop(s, variable, iterable, body) ==
  CASE iterable.t \notin {"xran", "ran", "arr", "vec", "str"} -> Throw(s, SemanticError)
    [] iterable.t = "str" /\ Len(iterable.s) > 1 -> Unmodelled(s)
    [] OTHER -> forInLoop(s, variable, iterable, body, 0)

executeWhileLoop(s, cond, body, n, result) ==
  IF n >= MaxIter THEN Unmodelled(s)
  ELSE (CHOOSE ret \in { CASE ~Ok(c) -> c
                [] c.pos # cond.end + 1 -> Throw(c, SystaxError)
                [] ~Truthy(c.val) -> Ret([c EXCEPT !.pos = s.pos], result)
                [] OTHER ->
                     (CHOOSE ret \in { CASE Ok(r) -> executeWhileLoop(r, cond, body, n + 1, r.val)
                              [] r.exc.k = "break" -> Ret(Clear(r), r.exc.val)
                              [] r.exc.k = "continue" ->
                                   executeWhileLoop(Clear(r), cond, body, n + 1, result)
                              [] OTHER -> r :
                            r \in {executeLoopBody([c EXCEPT !.pos = s.pos], body)} } : TRUE) :
              c \in {parseExpression([s EXCEPT !.pos = cond.start])} } : TRUE)


RECURSIVE scanCondition(_, _)
scanCondition(s, depth) ==
  LET token == peek(s, 0)
  IN IF s.pos >= Len(s.tokens) THEN s
     ELSE IF token = "{" /\ depth = 0 THEN s
     ELSE scanCondition(next(s),
            depth + (IF token \in {"(", "[", "{"} THEN 1 ELSE 0)
                  - (IF token \in {")", "]", "}"} THEN 1 ELSE 0))

\* the header of a loop in: val is the iterable
forInHeader(s, hasParen) ==
  (CHOOSE ret \in { CASE ~Ok(it) -> it
           [] ~hasParen -> it
           [] peek(it, 0) # ")" -> Throw(it, SystaxError)
           [] OTHER -> next(it) :
         it \in {parseExpression(next(next(s)))} } : TRUE)

\* this.expect("{"), parseLoopBody and the run of a loop in
forInRun(h, variable) ==
  CASE ~Ok(h) -> h
    [] peek(h, 0) # "{" -> Throw(h, SystaxError)
    [] OTHER ->
         LET body == parseLoopBody(next(h))
         IN (CHOOSE ret \in { IF ~Ok(run) THEN run ELSE [run EXCEPT !.pos = body.end + 1] :
                   run \in {executeForInLoop([h EXCEPT !.pos = body.after],
                                             variable, h.val, body)} } : TRUE)

\* the same for a condition loop, h being the state after the scan of the header
whileRun(h, conditionStart) ==
  IF peek(h, 0) # "{" THEN Throw(h, SystaxError)
  ELSE LET body == parseLoopBody(next(h))
       IN (CHOOSE ret \in { IF ~Ok(run) THEN run ELSE [run EXCEPT !.pos = body.end + 1] :
                 run \in {executeWhileLoop([h EXCEPT !.pos = body.after],
                                           [start |-> conditionStart, end |-> h.pos - 1],
                                           body, 0, Null)} } : TRUE)

parseLoopExpression(s) ==
  LET s1 == next(s)
      hasParen == peek(s1, 0) = "("
      s2 == IF hasParen THEN next(s1) ELSE s1
  IN CASE peek(s1, 0) = "{" -> parseInfiniteLoop(s1)
       [] isVariableToken(peek(s2, 0)) /\ peek(s2, 1) = "in" ->
            forInRun(forInHeader(s2, hasParen), peek(s2, 0))
       [] OTHER -> whileRun(scanCondition(s1, 0), s1.pos)

parseBreakStatement(s) ==
  IF peek(s, 1) \in {";", "}", ""}
  THEN ThrowBreak(IF peek(s, 1) = ";" THEN next(next(s)) ELSE next(s), Null)
  ELSE (CHOOSE ret \in { IF ~Ok(e) THEN e
              ELSE ThrowBreak(IF peek(e, 0) = ";" THEN next(e) ELSE e, e.val) :
              e \in {parseExpression(next(s))} } : TRUE)

parseContinueStatement(s) ==
  ThrowContinue(IF peek(s, 1) = ";" THEN next(next(s)) ELSE next(s))

\* ------------------------------------------------------------ conditional
skipElseIfChain(s) ==
  CASE peek(s, 0) # "else" -> s
    [] peek(s, 1) = "if" ->
         (CHOOSE ret \in { IF ~Ok(e) THEN e
                ELSE LET e1 == [e EXCEPT !.isSkipping = FALSE, !.val = s.val]
                     IN skipElseIfChain(IF peek(e1, 0) = "{" THEN skipBlock(next(e1), 1) ELSE e1) :
                e \in {parseExpression([next(next(s)) EXCEPT !.isSkipping = TRUE])} } : TRUE)
    [] peek(s, 1) = "{" -> skipBlock(next(next(s)), 1)
    [] OTHER -> Throw(next(s), SystaxError)

parseIfExpression(s) ==
  (CHOOSE ret \in { CASE ~Ok(c) -> c
           [] peek(c, 0) # "{" -> Throw(c, SystaxError)
           [] Truthy(c.val) ->
                (CHOOSE ret \in { CASE ~Ok(t) -> t
                         [] peek(t, 0) = "else" -> skipElseIfChain(t)
                         [] OTHER -> t : t \in {parseBlock(c)} } : TRUE)
           [] OTHER ->
                LET k == skipBlock(next(c), 1)
                IN CASE peek(k, 0) # "else" -> Ret(k, Null)
                     [] peek(k, 1) = "if" -> parseIfExpression(next(k))
                     [] peek(k, 1) = "{" -> parseBlock(next(k))
                     [] OTHER -> Throw(next(k), SystaxError) :
         c \in {parseExpression(next(s))} } : TRUE)
\* ------------------------------------------------------------- assignment
applyAssignment(s, container, index, op, value) ==
  IF container.t = "str" THEN Throw(s, SemanticError)
  ELSE IF container.t \in {"null", "undef"} THEN ThrowJs(s)
  ELSE IF ~isStruct(container)
       THEN (IF index < 0 THEN Throw(s, InvalidInstruction) ELSE ThrowJs(s))
  ELSE IF container.t = "arr" /\ index >= Len(elemsOf(s, container))
       THEN Throw(s, InvalidInstruction)
  ELSE IF index < 0 THEN Throw(s, InvalidInstruction)
  ELSE IF op \notin {"=", "+=", "-=", "*=", "/="} THEN Unmodelled(s)
  ELSE IF container.t = "set" THEN s
  ELSE LET arr == elemsOf(s, container)
           x == IF op = "=" THEN value ELSE JsArith(op, ArrGet(arr, index), value)
       IN setElems(s, container, ArrSet(arr, index, x))

\* the const guard of the indexed branch of parseAssignment
IndexedConstCheckMissing(varData) == FALSE
IndexedConstCheck(varData) == varData.const

assignIndexed(s, varName, indices, op, rhs) ==
  IF ~varHas(s, varName) THEN Throw(s, SemanticError)
  ELSE IF IndexedConstCheck(varGet(s, varName)) THEN Throw(s, SemanticError)
  ELSE LET n == Len(indices)
           w == lvWalk(s, varGet(s, varName).value, indices, 1, n - 1)
           li == evalIndex(w, indices[n])
           ap == applyAssignment(w, w.val, li.val.n, op, rhs)
       IN IF ~Ok(w) THEN w
          ELSE IF ~Ok(li) THEN li
          ELSE IF ~Ok(ap) THEN ap
          ELSE Ret(ap, stepInto(ap, w.val, li.val.n))

\* the type a new binding is given
plainType(rhs) ==
  CASE isStruct(rhs) \/ rhs.t \in {"ran", "xran"} -> rhs.t
    [] rhs.t = "num" -> "num"
    [] rhs.t \in {"nan", "inf"} -> "inf"
    [] rhs.t = "frac" -> "num"
    [] rhs.t = "bool" -> "bool"
    [] rhs.t = "str" -> "str"
    [] OTHER -> "null"

\* the switch (op) of the plain branch: val is result; the container a
\* binding holds is changed in place
compoundPlain(s, op, current, rhs) ==
  CASE op = "+=" ->
         (IF current.t = "arr" THEN Throw(s, InvalidInstruction)
          ELSE IF current.t = "vec"
               THEN Ret(setElems(s, current, Append(elemsOf(s, current), rhs)), current)
          ELSE IF current.t = "set"
               THEN Ret([s EXCEPT !.heap[current.n] = LuzSetAdd(@, rhs)], current)
          ELSE IF current.t \in {"ran", "xran"} THEN Unmodelled(s)
          ELSE Ret(s, JsArith("+=", current, rhs)))
    [] op = "-=" ->
         (IF current.t = "vec"
          THEN Ret(setElems(s, current,
                     RemoveAt(elemsOf(s, current), LastIndexOf(elemsOf(s, current), rhs))),
                   current)
          ELSE IF current.t = "arr" THEN Throw(s, InvalidInstruction)
          ELSE IF current.t = "set"
               THEN Ret([s EXCEPT !.heap[current.n] = LuzSetDelete(@, rhs)], current)
          ELSE IF current.t \in {"ran", "xran"} THEN Unmodelled(s)
          ELSE Ret(s, JsArith("-=", current, rhs)))
    [] op = "*=" -> Ret(s, JsArith("*=", current, rhs))
    [] op = "/=" -> Ret(s, JsArith("/=", current, rhs))
    [] OTHER -> Unmodelled(s)

\* if (varName) { ... }: the const guard, then the store
storeBinding(s, varName, isConst, result, type) ==
  IF varHas(s, varName)
  THEN (IF varGet(s, varName).const THEN Throw(s, SemanticError)
        ELSE Ret([s EXCEPT !.cells[s.vars[varName]].value = result,
                           !.cells[s.vars[varName]].type = getType(result)], result))
  ELSE Ret(varSetNew(s, varName, LuzVar(result, type, isConst)), result)

assignPlain(s, varName, isConst, op, rhs) ==
  IF op = "=" THEN storeBinding(s, varName, isConst, rhs, plainType(rhs))
  ELSE IF ~varHas(s, varName) THEN ThrowJs(s)
  ELSE LET current == varGet(s, varName).value
           c == compoundPlain(s, op, current, rhs)
       IN IF ~Ok(c) THEN c
          ELSE IF JsTypeof(current) # JsTypeof(c.val) THEN Throw(c, SemanticError)
          ELSE storeBinding(c, varName, isConst, c.val, plainType(rhs))

RECURSIVE scanLValue(_)
scanLValue(s) ==
  IF peek(s, 0) = "["
  THEN scanLValue([s EXCEPT !.pos = skipBrackets(s, s.pos + 1, 1)[1]])
  ELSE IF peek(s, 0) = "."
  THEN (IF ~isNumberToken(peek(s, 1)) THEN ThrowJs(s) ELSE scanLValue(next(next(s))))
  ELSE s

assignIndices(s, acc) ==
  CASE peek(s, 0) = "[" ->
         (CHOOSE ret \in { CASE ~Ok(e) -> e
                  [] peek(e, 0) # "]" -> Throw(e, SystaxError)
                  [] OTHER -> assignIndices(next(e), Append(acc, e.val)) :
                e \in {parseExpression(next(s))} } : TRUE)
    [] peek(s, 0) = "." ->
         (IF ~isNumberToken(peek(s, 1)) THEN Throw(next(next(s)), SystaxError)
          ELSE assignIndices(next(next(s)), Append(acc, Num(NumberOf(peek(s, 1))))))
    [] OTHER -> [s EXCEPT !.idx = acc]

\* the try block of parseAssignment
assignTry(s, isConst) ==
  LET scan == scanLValue(next(s))
      isAssignment == isVariableToken(peek(s, 0)) /\ Ok(scan) /\ peek(scan, 0) \in AssignOps
      varName == peek(s, 0)
  IN CASE ~isAssignment -> ThrowJs(s)
       [] isLiteralToken(varName) -> Throw(s, SemanticError)
       [] varName \in KEYWORDS -> Throw(s, SemanticError)
       [] OTHER ->
            (CHOOSE ret \in { IF ~Ok(ix) THEN ix
                   ELSE (CHOOSE ret \in { CASE ~Ok(r) -> r
                                 [] Len(ix.idx) > 0 ->
                                      assignIndexed(r, varName, ix.idx, peek(ix, 0), r.val)
                                 [] OTHER -> assignPlain(r, varName, isConst, peek(ix, 0), r.val) :
                               r \in {parseAssignment(next(ix))} } : TRUE) :
                   ix \in {assignIndices(next(s), <<>>)} } : TRUE)

\* the catch clause of parseAssignment: pos and the map of names are put
\* back; what the statement did to LuzVar objects and to containers stays
parseAssignment(s) ==
  LET isConst == peek(s, 0) = "const"
      s0 == IF isConst THEN next(s) ELSE s
  IN (CHOOSE ret \in { CASE ~Caught(body) -> body
              [] isSemantic(body.exc) -> [body EXCEPT !.pos = s0.pos, !.vars = s0.vars]
              [] OTHER ->
                   Climb([body EXCEPT !.pos = s0.pos, !.vars = s0.vars, !.exc = NoExc], Level.parseRange) :
            body \in {assignTry(s0, isConst)} } : TRUE)

\* ------------------------------------------------------ precedence chain
parseRangeLoop(l) ==
  IF peek(l, 0) \notin {"..", "..="} THEN l
  ELSE (CHOOSE ret \in { CASE ~Ok(r) -> r
                [] ~(isNumber(l.val) /\ isNumber(r.val)) -> Throw(r, SemanticError)
                [] l.val.t # "num" \/ r.val.t # "num" -> Unmodelled(r)
                [] OTHER ->
                     parseRangeLoop(Ret(r, IF peek(l, 0) = "..=" THEN Range(l.val.n, r.val.n)
                                           ELSE XRange(l.val.n, r.val.n))) :
              r \in {Climb(next(l), Level.parseLogicalOr)} } : TRUE)

parseLogicalOrLoop(l) ==
  IF peek(l, 0) # "||" THEN l
  ELSE (CHOOSE ret \in { IF ~Ok(r) THEN r
              ELSE parseLogicalOrLoop(IF Truthy(l.val) THEN Ret(r, l.val) ELSE r) :
              r \in {Climb(next(l), Level.parseNullish)} } : TRUE)

parseNullishLoop(l) ==
  IF peek(l, 0) # "??" THEN l
  ELSE (CHOOSE ret \in { IF ~Ok(r) THEN r
              ELSE parseNullishLoop(IF Truthy(l.val) \/ l.val.t \notin {"null", "undef"}
                                    THEN Ret(r, l.val) ELSE r) :
              r \in {Climb(next(l), Level.parseLogicalAnd)} } : TRUE)

parseLogicalAndLoop(l) ==
  IF peek(l, 0) # "&&" THEN l
  ELSE (CHOOSE ret \in { IF ~Ok(r) THEN r
              ELSE parseLogicalAndLoop(IF ~Truthy(l.val) THEN Ret(r, l.val) ELSE r) :
              r \in {parseExpression(next(l))} } : TRUE)

\* an infinity lies beyond every number of a program
Compare(op, a, b) ==
  LET Rank(v) == IF v.t = "inf" THEN v.n * 1000000 ELSE v.n
  IN IF a.t = "nan" \/ b.t = "nan" THEN FALSE
  ELSE CASE op = "<" -> Rank(a) < Rank(b)
         [] op = ">" -> Rank(a) > Rank(b)
         [] op = "<=" -> Rank(a) <= Rank(b)
         [] op = ">=" -> Rank(a) >= Rank(b)

\* Array.prototype.includes and Set.prototype.has compare by SameValueZero
checkHas(s, left, right) ==
  IF left.t \in {"null", "undef"} THEN Ret(s, Bool(FALSE))
  ELSE IF left.t \in {"arr", "vec", "set"}
       THEN Ret(s, Bool(\E j \in 1..Len(elemsOf(s, left)) : elemsOf(s, left)[j] = right))
  ELSE IF left.t \in {"ran", "xran"}
       THEN (IF JsTypeof(right) # "number" THEN Ret(s, Bool(FALSE))
             ELSE IF right.t = "frac" THEN Unmodelled(s)
             ELSE Ret(s, Bool(/\ Compare(">=", right, Num(left.n))
                              /\ Compare(IF left.t = "ran" THEN "<" ELSE "<=",
                                         right, Num(left.e)))))
  ELSE IF left.t = "str" THEN Unmodelled(s)
  ELSE Throw(s, SemanticError)

parseEqualityLoop(l) ==
  IF peek(l, 0) \notin {"==", "!=", "has"} THEN l
  ELSE (CHOOSE ret \in { CASE ~Ok(r) -> r
                [] peek(l, 0) = "==" ->
                     parseEqualityLoop(Ret(r, Bool(UnderlyingEq(l.val, r.val))))
                [] peek(l, 0) = "!=" ->
                     parseEqualityLoop(Ret(r, Bool(~UnderlyingEq(l.val, r.val))))
                [] OTHER ->
                     LET h == checkHas(r, l.val, r.val)
                     IN IF ~Ok(h) THEN h ELSE parseEqualityLoop(h) :
              r \in {Climb(next(l), Level.parseComparison)} } : TRUE)

parseComparisonLoop(l) ==
  IF peek(l, 0) \notin {"<", ">", "<=", ">="} THEN l
  ELSE (CHOOSE ret \in { CASE ~Ok(r) -> r
                [] ~(isNumber(l.val) /\ isNumber(r.val)) -> Throw(r, SemanticError)
                [] l.val.t = "frac" \/ r.val.t = "frac" -> Unmodelled(r)
                [] OTHER ->
                     parseComparisonLoop(Ret(r, Bool(Compare(peek(l, 0), l.val, r.val)))) :
              r \in {Climb(next(l), Level.parseAddSub)} } : TRUE)
\* left + right: a Vec or Set operand is changed in place
addValues(s, left, right) ==
  IF left.t \in {"ran", "xran"} THEN Unmodelled(s)
  ELSE IF isStruct(left)
       THEN (IF left.t = "arr" THEN Throw(s, InvalidInstruction)
             ELSE IF left.t = "vec"
                  THEN Ret(setElems(s, left, Append(elemsOf(s, left), right)), left)
                  ELSE Ret([s EXCEPT !.heap[left.n] = LuzSetAdd(@, right)], left))
  ELSE IF right.t \in {"ran", "xran"} THEN Unmodelled(s)
  ELSE IF isStruct(right)
       THEN (IF right.t = "arr" THEN Throw(s, InvalidInstruction)
             ELSE IF right.t = "vec"
                  THEN Ret(setElems(s, right, <<left>> \o elemsOf(s, right)), right)
                  ELSE Ret([s EXCEPT !.heap[right.n] = LuzSetAdd(@, left)], right))
  ELSE Ret(s, JsArith("+", left, right))

\* left - right
subValues(s, left, right) ==
  IF left.t \in {"ran", "xran"} THEN Unmodelled(s)
  ELSE IF isStruct(left)
       THEN (IF left.t = "arr" THEN Throw(s, InvalidInstruction)
             ELSE IF left.t = "vec"
                  THEN Ret(setElems(s, left,
                             RemoveAt(elemsOf(s, left), LastIndexOf(elemsOf(s, left), right))),
                           right)
                  ELSE Ret([s EXCEPT !.heap[left.n] = LuzSetDelete(@, right)], right))
  ELSE IF right.t \in {"ran", "xran"} THEN Unmodelled(s)
  ELSE IF isStruct(right)
       THEN (IF right.t = "arr" THEN Throw(s, InvalidInstruction)
             ELSE IF right.t = "vec"
                  THEN Ret(setElems(s, right,
                             RemoveAt(elemsOf(s, right), FirstIndexOf(elemsOf(s, right), left))),
                           V("rawarr", right.n, ""))
                  ELSE Ret([s EXCEPT !.heap[right.n] = LuzSetDelete(@, left)],
                           V("rawset", right.n, "")))
  ELSE Ret(s, JsArith("-", left, right))

parseAddSubLoop(l) ==
  IF peek(l, 0) \notin {"+", "-"} THEN l
  ELSE (CHOOSE ret \in { IF ~Ok(r) THEN r
              ELSE LET x == IF peek(l, 0) = "+" THEN addValues(r, l.val, r.val)
                            ELSE subValues(r, l.val, r.val)
                   IN IF ~Ok(x) THEN x ELSE parseAddSubLoop(x) :
              r \in {Climb(next(l), Level.parsePow)} } : TRUE)

parsePowLoop(l) ==
  IF peek(l, 0) = "**" THEN Unmodelled(l)
  ELSE IF l.val.t = "nan" THEN Ret(l, Null) ELSE l

\* if (typeof left === "number" && Number.isNaN(left)) return null
parseMulDivLoop(l) ==
  IF peek(l, 0) \notin {"*", "/", "%", "~/"}
  THEN (IF l.val.t = "nan" THEN Ret(l, Null) ELSE l)
  ELSE (CHOOSE ret \in { CASE ~Ok(r) -> r
                [] peek(l, 0) = "*" -> parseMulDivLoop(Ret(r, JsArith("*", l.val, r.val)))
                [] peek(l, 0) = "/" -> parseMulDivLoop(Ret(r, JsArith("/", l.val, r.val)))
                [] OTHER -> Unmodelled(r) :
              r \in {Climb(next(l), Level.parseBitwise)} } : TRUE)

parseBitwiseLoop(l) ==
  IF peek(l, 0) \in {"&", "|", "^", "<<", ">>", ">>>"} THEN Unmodelled(l) ELSE l
\* the casts of parseAs whose source is a scalar or a wrapper object
castValue(s, left, targetType) ==
  CASE targetType \in {"arr", "vec"} ->
         (IF left.t \in {"arr", "vec"} THEN Ret(s, V(targetType, left.n, ""))
          ELSE IF left.t = "set"
               THEN Alloc(s, targetType, Cell(elemsOf(s, left), Undef))
          ELSE IF left.t \in {"null", "undef"} THEN ThrowJs(s)
          ELSE IF left.t = "str" /\ Len(left.s) > 1 THEN Unmodelled(s)
          ELSE Alloc(s, targetType,
                     Cell(IF left.t = "str" /\ left.s # "" THEN <<left>> ELSE <<>>, Undef)))
    [] targetType = "set" ->
         (IF left.t = "set" THEN Ret(s, left)
          ELSE IF left.t \in {"arr", "vec"}
               THEN Alloc(s, "set", LuzSetNew(elemsOf(s, left)))
          ELSE Unmodelled(s))
    [] targetType = "str" -> Ret(s, Str(asStr(s.heap, left, {})))
    [] targetType = "bool" -> Ret(s, Bool(IF isStruct(left) THEN TRUE ELSE Truthy(left)))
    [] targetType = "num" -> IF isStruct(left) THEN Unmodelled(s) ELSE Ret(s, ToNum(left))
    [] targetType \in {"xl", "maybe"} -> Unmodelled(s)
    [] OTHER -> IF isStruct(left) THEN Unmodelled(s) ELSE Ret(s, left)

\* the casts of parseAs whose source is an XRange or a Range
castRange(s, left, targetType) ==
  CASE targetType \in {"vec", "arr"} ->
         Alloc(s, targetType, Cell(generate(left, left.n), Undef))
    [] targetType = "set" -> Alloc(s, "set", LuzSetNew(generate(left, left.n)))
    [] targetType = "str" -> Ret(s, Str(joinStr(s.heap, generate(left, left.n), {}, "")))
    [] targetType = "ran" ->
         Ret(s, IF left.t = "ran"
                THEN XRange(left.n, left.e + (IF left.n <= left.e THEN 1 ELSE -1))
                ELSE left)
    [] targetType = "xran" ->
         Ret(s, IF left.t = "xran"
                THEN Range(left.n, left.e + (IF left.n < left.e THEN -1 ELSE 1))
                ELSE left)
    [] targetType = "num" -> Ret(s, NaN)
    [] targetType = "bool" -> Ret(s, Bool(TRUE))
    [] targetType = "xl" -> ThrowJs(s)
    [] OTHER -> Unmodelled(s)

\* the cast of parseAs once the target type is known
asCast(after, left, targetType) ==
  CASE targetType \notin TYPES -> Throw(after, SemanticError)
    [] left.t \in {"ran", "xran"} -> LET c == castRange(after, left, targetType)
                        IN IF ~Ok(c) THEN c ELSE parseAsLoop(c)
    [] OTHER -> LET c == castValue(after, left, targetType)
                IN IF ~Ok(c) THEN c ELSE parseAsLoop(c)

parseAsLoop(l) ==
  CASE peek(l, 0) # "as" -> l
    [] peek(l, 1) = "typeof" ->
         (CHOOSE ret \in { IF ~Ok(ref) THEN ref ELSE asCast(ref, l.val, getType(ref.val)) :
                ref \in {parseUnary(next(next(l)))} } : TRUE)
    [] OTHER -> asCast(next(next(l)), l.val, peek(l, 1))

\* the loops of the methods of the levels level .. top of the chain,
\* 1 (parseAs) .. 11 (parseRange), on what the level below returned
chainFrom(l, level, top) ==
  IF level > top \/ ~Ok(l) THEN l
  ELSE chainFrom(
  CASE level = 1 -> parseAsLoop(l)
    [] level = 2 -> parseBitwiseLoop(l)
    [] level = 3 -> parseMulDivLoop(l)
    [] level = 4 -> parsePowLoop(l)
    [] level = 5 -> parseAddSubLoop(l)
    [] level = 6 -> parseComparisonLoop(l)
    [] level = 7 -> parseEqualityLoop(l)
    [] level = 8 -> parseLogicalAndLoop(l)
    [] level = 9 -> parseNullishLoop(l)
    [] level = 10 -> parseLogicalOrLoop(l)
    [] level = 11 -> parseRangeLoop(l),
  level + 1, top)

Climb(s, top) == (CHOOSE ret \in { chainFrom(l, 1, top) : l \in {parseUnary(s)} } : TRUE)

logFn(s, text) == [s EXCEPT !.out = Append(@, text)]

\* line.trim().split(/\s+/) of the lines standard input is made of
SplitLine ==
  ("" :> <<"">>) @@ (" " :> <<"">>) @@ ("A" :> <<"A">>) @@ ("A B" :> <<"A", "B">>)
  @@ (" B  A " :> <<"B", "A">>)

\* fs.readSync(0, buffer) byte by byte up to "\n": the next line, and what is
\* left ("") once the input is at end-of-file
readLineFromStdin(s) ==
  IF s.stdin = <<>> THEN Ret(s, Str(""))
  ELSE Ret([s EXCEPT !.stdin = Tail(@)], Str(Head(s.stdin)))

\* while (true) { line = getInput(); ...; if (tokens[0] === "") continue; ... }
RECURSIVE getToken(_)
getToken(s) ==
  LET l == readLineFromStdin(s)
      tokens == SplitLine[l.val.s]
  IN IF tokens[1] = ""
     THEN (IF l.stdin = s.stdin THEN Spins(l) ELSE getToken(l))
     ELSE Ret([l EXCEPT !.stdinStack =
                          [j \in 1..(Len(tokens) - 1) |-> tokens[Len(tokens) + 1 - j]]],
              Str(tokens[1]))

\* del <lvalue>: the value read, then the delete closure
delLValue(lval) ==
  LET got == LvGet(lval, lval.lv)
      del == LvDelete(lval, lval.lv)
  IN CASE ~Ok(lval) -> lval
       [] ~lval.lv.ok -> Throw(lval, SemanticError)
       [] ~Ok(got) -> got
       [] ~Ok(del) -> del
       [] OTHER -> Ret(del, got.val)

\* structuredClone(rhs) of a wrapper object: every array, LuzSet and wrapper
\* reached from it is copied once (memo: the objects copied so far); a copied
\* LuzSet is a plain Set, which has no last.  c is [heap, memo, val].
RECURSIVE cloneValue(_, _), cloneElems(_, _, _)
cloneElems(c, elems, acc) ==
  IF elems = <<>> THEN [c EXCEPT !.val = acc]
  ELSE (CHOOSE ret \in { cloneElems(x, Tail(elems), Append(acc, x.val)) :
              x \in {cloneValue(c, elems[1])} } : TRUE)
cloneValue(c, v) ==
  IF ~(isStruct(v) \/ v.t \in {"rawarr", "rawset"}) THEN [c EXCEPT !.val = v]
  ELSE IF v.n \in DOMAIN c.memo THEN [c EXCEPT !.val = V(v.t, c.memo[v.n], "")]
  ELSE (CHOOSE ret \in { [heap |-> [x.heap EXCEPT ![Len(c.heap) + 1].elems = x.val],
                         memo |-> x.memo, val |-> V(v.t, Len(c.heap) + 1, "")] :
              x \in {cloneElems([heap |-> Append(c.heap, Cell(<<>>, Undef)),
                                 memo |-> c.memo @@ (v.n :> Len(c.heap) + 1),
                                 val |-> v],
                                c.heap[v.n].elems, <<>>)} } : TRUE)
structuredCloneTopLevelOnly(s, rhs) == Alloc(s, rhs.t, Cell(elemsOf(s, rhs), Undef))
structuredClone(s, rhs) ==
  (CHOOSE ret \in { Ret([s EXCEPT !.heap = x.heap], x.val) :
         x \in {cloneValue([heap |-> s.heap, memo |-> EmptyMap, val |-> rhs], rhs)} } : TRUE)

\* typeStr of the typeof branch of parseUnary
typeofStr(operand) ==
  CASE isStruct(operand) \/ operand.t \in {"ran", "xran"} -> operand.t
    [] operand.t = "str" -> "str"
    [] operand.t \in {"num", "frac"} -> "num"
    [] operand.t \in {"nan", "inf"} -> "inf"
    [] operand.t = "bool" -> "bool"
    [] OTHER -> "null"

\* the loop of getStrToken over the interpolation blocks of a token: the
\* finally clause puts pos and tokens back however the block ends
getStrToken(s, parts, result) ==
  IF parts = <<>> THEN Ret(s, Str(result))
  ELSE IF parts[1].expression = <<>>
       THEN getStrToken(s, Tail(parts), result \o parts[1].text)
  ELSE (CHOOSE ret \in { IF ~Ok(e) THEN [e EXCEPT !.pos = s.pos, !.tokens = s.tokens]
              ELSE getStrToken([e EXCEPT !.pos = s.pos, !.tokens = s.tokens], Tail(parts),
                               result \o parts[1].text \o asStr(e.heap, e.val, {})) :
              e \in {parseExpression([s EXCEPT !.tokens = parts[1].expression, !.pos = 0])} } : TRUE)

\* the branch of parseUnary for a token ++lvalue / --lvalue and the branch
\* of parsePrimary for a token lvalue++ / lvalue--: s is the interpreter at
\* originalPos; val is newValue for a prefix, current for a postfix token
incDecToken(s, token) ==
  (CHOOSE ret \in {
     IF ~Ok(lValue) THEN lValue
     ELSE LET back == [lValue EXCEPT !.tokens = s.tokens, !.pos = s.pos]
              current == LvGet(back, lValue.lv)
              newValue == NumAdd(current.val, Num(IF token.operator = "++" THEN 1 ELSE -1))
              set == LvSet(back, lValue.lv, newValue)
          IN CASE ~lValue.lv.ok -> Throw(back, SemanticError)
               [] ~Ok(current) -> current
               [] JsTypeof(current.val) # "number" -> Throw(back, SemanticError)
               [] ~Ok(set) -> set
               [] OTHER -> Ret(set, IF token.prefix THEN newValue ELSE current.val) :
     lValue \in {tryParseLValue([s EXCEPT !.tokens = token.variablePart, !.pos = 0])} } : TRUE)

parsePostfix(s) ==
  (CHOOSE ret \in { CASE ~Ok(p) -> p
           [] peek(p, 0) \in {"++", "--"} -> Unmodelled(p)
           [] OTHER -> p : p \in {parsePrimary(s)} } : TRUE)

parseUnary(s) ==
  CASE peek(s, 0) \in DOMAIN IncDecTokens /\ IncDecTokens[peek(s, 0)].prefix ->
         (CHOOSE ret \in { IF ~Ok(r) THEN r ELSE next(r) :
                r \in {incDecToken(s, IncDecTokens[peek(s, 0)])} } : TRUE)
    [] peek(s, 0) = "!" ->
         (CHOOSE ret \in { IF ~Ok(u) THEN u ELSE Ret(u, Bool(~Truthy(u.val))) :
                u \in {parseUnary(next(s))} } : TRUE)
    [] peek(s, 0) \in {"log", "logln"} ->
         (IF peek(s, 1) \in {";", "}", ")", "]", ""}
          THEN Ret(logFn(next(s), IF peek(s, 0) = "log" THEN "" ELSE "\n"), Str(""))
          ELSE (CHOOSE ret \in { IF ~Ok(e) THEN e
                      ELSE Ret(logFn(e, IF peek(s, 0) = "log" THEN asStr(e.heap, e.val, {})
                                        ELSE asStr(e.heap, e.val, {}) \o "\n"),
                               Str(asStr(e.heap, e.val, {}))) :
                      e \in {parseExpression(next(s))} } : TRUE))
    [] peek(s, 0) = "lenof" ->
         (CHOOSE ret \in { CASE ~Ok(p) -> p
                  [] p.val.t = "str" -> Ret(p, Num(Len(p.val.s)))
                  [] isStruct(p.val) -> Ret(p, Num(Len(elemsOf(p, p.val))))
                  [] OTHER -> Throw(p, SemanticError) :
                p \in {parsePrimary(next(s))} } : TRUE)
    [] peek(s, 0) = "del" ->
         (IF peek(s, 1) = "*" THEN Ret([next(next(s)) EXCEPT !.vars = EmptyMap], Null)
          ELSE (CHOOSE ret \in { delLValue(lval) : lval \in {tryParseLValue(next(s))} } : TRUE))
    [] peek(s, 0) \in {"+", "-"} ->
         (CHOOSE ret \in { CASE ~Ok(u) -> u
                  [] ~isNumber(u.val) -> Throw(u, SemanticError)
                  [] OTHER -> Ret(u, IF peek(s, 0) = "+" THEN u.val ELSE NumNeg(u.val)) :
                u \in {parseUnary(next(s))} } : TRUE)
    [] peek(s, 0) = "typeof" ->
         (CHOOSE ret \in { IF ~Ok(e) THEN e ELSE Ret(e, Str(typeofStr(e.val))) :
                e \in {parseExpression(next(s))} } : TRUE)
    [] peek(s, 0) = "copyof" ->
         (CHOOSE ret \in { CASE ~Ok(e) -> e
                  [] e.val.t \in {"ran", "xran"} -> Unmodelled(e)
                  [] isStruct(e.val) -> structuredClone(e, e.val)
                  [] OTHER -> e :
                e \in {parseExpression(next(s))} } : TRUE)
    [] peek(s, 0) = "lastof" ->
         (CHOOSE ret \in { CASE ~Ok(p) -> p
                  [] p.val.t = "ran" -> Ret(p, Num(p.val.e))
                  [] p.val.t = "xran" -> Ret(p, Num(p.val.e - Sign(p.val.e - p.val.n)))
                  [] p.val.t \in {"arr", "vec"} ->
                       Ret(p, LET x == ArrGet(elemsOf(p, p.val), Len(elemsOf(p, p.val)) - 1)
                              IN IF x.t = "undef" THEN Null ELSE x)
                  [] p.val.t = "set" ->
                       Ret(p, IF p.heap[p.val.n].last.t = "undef" THEN Null
                              ELSE p.heap[p.val.n].last)
                  [] p.val.t = "str" ->
                       (IF Len(p.val.s) > 1 THEN Unmodelled(p)
                        ELSE Ret(p, IF p.val.s = "" THEN Null ELSE p.val))
                  [] OTHER -> Throw(p, SemanticError) :
                p \in {parsePrimary(next(s))} } : TRUE)
    [] peek(s, 0) \in {"get", "getln"} ->
         LET hasPrompt == peek(next(s), 0) \notin {";", "}", "]", ")", "", "as", "get", "getln",
                                                   "==", "!="}
         IN (CHOOSE ret \in {
                CASE ~Ok(p) -> p
                  [] peek(s, 0) = "getln" -> readLineFromStdin(p)
                  [] p.stdinStack # <<>> ->
                       Ret([(IF hasPrompt THEN logFn(p, "\n") ELSE p)
                              EXCEPT !.stdinStack = SubSeq(@, 1, Len(@) - 1)],
                           Str(p.stdinStack[Len(p.stdinStack)]))
                  [] OTHER -> getToken(p) :
                p \in {IF hasPrompt
                       THEN (CHOOSE ret \in { IF Ok(a) THEN logFn(a, asStr(a.heap, a.val, {}))
                                             ELSE a :
                                    a \in {parsePrimary(next(s))} } : TRUE)
                       ELSE next(s)} } : TRUE)
    [] peek(s, 0) \in {"++", "--", "~", "firstof", "sizeof"} ->
         Unmodelled(s)
    [] OTHER -> parsePostfix(s)

\* the scan of parseArrLiteral / parseVecLiteral for the last top-level ';'
RECURSIVE lastSemicolon(_, _, _, _)
lastSemicolon(s, p, depth, last) ==
  IF p >= Len(s.tokens) THEN last
  ELSE LET token == tokAt(s, p)
       IN IF token = ";" THEN lastSemicolon(s, p + 1, depth, IF depth = 0 THEN p ELSE last)
          ELSE IF token \in {"[", "!["} THEN lastSemicolon(s, p + 1, depth + 1, last)
          ELSE IF token = "]"
               THEN (IF depth - 1 < 0 THEN last ELSE lastSemicolon(s, p + 1, depth - 1, last))
          ELSE lastSemicolon(s, p + 1, depth, last)

\* while (this.peek() !== close) { if (this.peek() === ",") this.next(); ... }
\* and the this.next() over the closing token
literalElements(s, close, acc) ==
  IF peek(s, 0) = close THEN [next(s) EXCEPT !.idx = acc]
  ELSE (CHOOSE ret \in { IF ~Ok(e) THEN e ELSE literalElements(e, close, Append(acc, e.val)) :
              e \in {parseExpression(IF peek(s, 0) = "," THEN next(s) ELSE s)} } : TRUE)

\* while (this.pos < this.tokens.length) element = this.parseStatement()
\* on the tokens of the element block
blockStatements(s, element) ==
  IF s.pos < Len(s.tokens)
  THEN (CHOOSE ret \in { IF ~Ok(e) THEN e ELSE blockStatements(e, e.val) :
              e \in {parseStatement(s)} } : TRUE)
  ELSE Ret(s, element)

\* for (let i = 0; i < length; i++) { ... }: l is the interpreter after the
\* length expression, on the tokens and at the position every turn puts back
replicateEvaluatedOnce(l, blockTokens, length, originalVars, i, elements) ==
  IF length = 0 THEN [l EXCEPT !.idx = <<>>]
  ELSE (CHOOSE ret \in { IF ~Ok(b) THEN b
              ELSE [b EXCEPT !.tokens = l.tokens, !.pos = l.pos,
                             !.idx = [j \in 1..length |-> b.val]] :
              b \in {blockStatements([l EXCEPT !.vars = originalVars, !.tokens = blockTokens,
                                               !.pos = 0], Null)} } : TRUE)
replicate(l, blockTokens, length, originalVars, i, elements) ==
  IF i >= length THEN [l EXCEPT !.idx = elements]
  ELSE (CHOOSE ret \in { IF ~Ok(b) THEN b
              ELSE replicate([b EXCEPT !.tokens = l.tokens, !.pos = l.pos],
                             blockTokens, length, originalVars, i + 1,
                             Append(elements, b.val)) :
              b \in {blockStatements([l EXCEPT !.vars = originalVars, !.tokens = blockTokens,
                                               !.pos = 0], Null)} } : TRUE)

\* the branch lastSemicolonPos !== -1 and the closing "]"
replicateLiteral(s, lastSemicolonPos) ==
  (CHOOSE ret \in { CASE ~Ok(l) -> l
           [] l.val.t = "null" -> Throw(l, SemanticError)
           [] ToNum(l.val).t # "num" -> Throw(l, SemanticError)
           [] ToNum(l.val).n < 0 -> Throw(l, SemanticError)
           [] OTHER ->
                (CHOOSE ret \in { CASE ~Ok(r) -> r
                         [] peek(r, 0) # "]" -> Throw(r, SystaxError)
                         [] OTHER -> next(r) :
                       r \in {replicate(l, SubSeq(s.tokens, s.pos + 1, lastSemicolonPos),
                                        ToNum(l.val).n, l.vars, 0, <<>>)} } : TRUE) :
         l \in {parseExpression([s EXCEPT !.pos = lastSemicolonPos + 1])} } : TRUE)

\* parseArrLiteral and parseVecLiteral are the same statements
parseArrLiteral(s) ==
  CASE peek(s, 0) = "]" -> [next(s) EXCEPT !.idx = <<>>]
    [] lastSemicolon(s, s.pos, 0, -1) # -1 ->
         replicateLiteral(s, lastSemicolon(s, s.pos, 0, -1))
    [] OTHER -> literalElements(s, "]", <<>>)

\* values[idx] ?? null on the container an index chain has reached
getIndexValue(s, container, idx) ==
  IF container.t = "str"
  THEN (IF idx >= 0 /\ idx < Len(container.s)
        THEN (IF Len(container.s) = 1 THEN Ret(s, container) ELSE Unmodelled(s))
        ELSE Ret(s, Null))
  ELSE IF container.t \in {"null", "undef"} THEN ThrowJs(s)
  ELSE LET x == stepInto(s, container, idx)
       IN Ret(s, IF x.t = "undef" THEN Null ELSE x)

parseIndexAccess(s, container) ==
  (CHOOSE ret \in { CASE ~Ok(e) -> e
           [] peek(e, 0) # "]" -> Throw(e, SystaxError)
           [] e.val.t \in {"ran", "xran"} -> Unmodelled(e)
           [] OTHER -> LET ei == evalIndex(next(e), e.val)
                       IN IF ~Ok(ei) THEN ei ELSE getIndexValue(ei, container, ei.val.n) :
         e \in {parseExpression(next(s))} } : TRUE)

variableChain(s, value) ==
  CASE peek(s, 0) = "[" ->
         (CHOOSE ret \in { IF ~Ok(a) THEN a ELSE variableChain(a, a.val) :
                a \in {parseIndexAccess(s, value)} } : TRUE)
    [] peek(s, 0) = "." ->
         (IF ~isNumberToken(peek(s, 1)) THEN ThrowJs(next(next(s)))
          ELSE LET g == getIndexValue(next(next(s)), value, NumberOf(peek(s, 1)))
               IN IF ~Ok(g) THEN g ELSE variableChain(g, g.val))
    [] OTHER -> Ret(s, value)

\* new Arr / Vec / LuzSet of the elements a literal parsed
newStruct(l, type) ==
  IF ~Ok(l) THEN l
  ELSE Alloc(l, type, IF type = "set" THEN LuzSetNew(l.idx) ELSE Cell(l.idx, Undef))

parsePrimary(s) ==
  LET tok == peek(s, 0)
      s1 == next(s)
  IN CASE tok = "if" -> parseIfExpression(s)
       [] tok = "loop" -> parseLoopExpression(s)
       [] tok = "break" -> parseBreakStatement(s)
       [] tok = "continue" -> parseContinueStatement(s)
       [] tok = "(" ->
            (CHOOSE ret \in { CASE ~Ok(inner) -> inner
                     [] peek(inner, 0) # ")" -> Throw(inner, SystaxError)
                     [] OTHER -> next(inner) : inner \in {parseExpression(s1)} } : TRUE)
       [] tok = "[" -> (CHOOSE ret \in { newStruct(l, "arr") : l \in {parseArrLiteral(s1)} } : TRUE)
       [] tok = "![" -> (CHOOSE ret \in { newStruct(l, "vec") : l \in {parseArrLiteral(s1)} } : TRUE)
       [] tok = "@{" -> (CHOOSE ret \in { newStruct(l, "set") : l \in {literalElements(s1, "}", <<>>)} } : TRUE)
       [] isNumberToken(tok) -> Ret(s1, Num(NumberOf(tok)))
       [] isInfToken(tok) -> Ret(s1, Inf(1))
       [] isStrToken(tok) ->
            (IF tok \in DOMAIN StrParts THEN getStrToken(s1, StrParts[tok], "")
             ELSE Ret(s1, Str(StrLit[tok])))
       [] isBooleanToken(tok) -> Ret(s1, Bool(tok = "true"))
       [] isNullToken(tok) -> Ret(s1, Null)
       [] isMaybeToken(tok) -> Unmodelled(s1)
       [] tok \in DOMAIN IncDecTokens -> incDecToken(s1, IncDecTokens[tok])
       [] isVariableToken(tok) ->
            (IF ~varHas(s1, tok) THEN Throw(s1, SemanticError)
             ELSE variableChain(s1, varGet(s1, tok).value))
       [] OTHER -> Throw(s1, SystaxError)

\* ------------------------------------------------------------------ run()
\* expr is the program text, held as the tokens Luz.tokensRegExp cuts it into;
\* scope is this.vars, a Map from a name to its LuzVar object (an index of cells)
VARIABLES expr, clearVarsOnEnd, tokens, pos, scope, cells, heap, out, isSkipping,
          iterlog, phase, code, hooks, stdin, stdinStack

vars == <<expr, clearVarsOnEnd, tokens, pos, scope, cells, heap, out, isSkipping,
          iterlog, phase, code, hooks, stdin, stdinStack>>

\* the fields of the Luz object, as the methods above take them
Interp ==
  [tokens |-> tokens, pos |-> pos, vars |-> scope, cells |-> cells, heap |-> heap,
   out |-> out, isSkipping |-> isSkipping, iterlog |-> iterlog,
   stdin |-> stdin, stdinStack |-> stdinStack,
   val |-> Null, exc |-> NoExc, idx |-> <<>>, lv |-> NoLv]

\* the finally clause of run(), on the local variable code
runFinallyEndOnSuccessOnly(c) ==
  IF c = Num(Success) THEN <<[h |-> "onSuccess", arg |-> Null], [h |-> "onEnd", arg |-> c]>>
  ELSE <<[h |-> "onError", arg |-> c]>>
runFinally(c) ==
  <<IF c = Num(Success) THEN [h |-> "onSuccess", arg |-> Null]
                         ELSE [h |-> "onError", arg |-> c],
    [h |-> "onEnd", arg |-> c]>>


\* --------------------------------------------------------------- programs
\* literals a program writes a value with
ScalarLits == {<<"5">>, <<"'A'">>, <<"true">>}
ArrLit == <<"[", "1", "2", "]">>
VecLit == <<"![", "1", "2", "]">>
SetLit == <<"@{", "1", "2", "}">>
ContainerLits == {ArrLit, VecLit, SetLit}
Marker == <<";", "log", "'Z'">>

\* const c = <value> ; c <op> <e> ; log 'Z'
ConstProgram(init, op, rhs) ==
  <<"const", "c", "=">> \o init \o <<";", "c", op>> \o rhs \o Marker
ConstPrograms ==
  {ConstProgram(init, op, rhs) :
     init \in ScalarLits \cup ContainerLits, op \in {"=", "+=", "-=", "*=", "/="},
     rhs \in {<<"1">>, <<"3">>}}

\* [const] a = <container> ; a[i] <op> 9 ; log 'Z'    and the dotted form a.i
IndexLits == {<<"0">>, <<"1">>, <<"5">>, <<"-", "1">>}
ElementProgram(decl, cont, i, op) ==
  decl \o <<"a", "=">> \o cont \o <<";", "a", "[">> \o i \o <<"]", op, "9">> \o Marker
DottedProgram(decl, cont, i) ==
  decl \o <<"a", "=">> \o cont \o <<";", "a", ".", i, "=", "9">> \o Marker
ElementProgramsOf(decls, conts, indices) ==
  {ElementProgram(decl, cont, i, op) :
     decl \in decls, cont \in conts, i \in indices, op \in {"=", "+="}}
  \cup
  {DottedProgram(decl, cont, i[1]) :
     decl \in decls, cont \in conts, i \in indices \cap {<<"0">>, <<"5">>}}
ElementPrograms == ElementProgramsOf({<<>>, <<"const">>}, {ArrLit, VecLit}, IndexLits)

\* a = [1 2] ; <statements that reach the Arr> ; log lenof a ; log 'Z'
ArrOperations ==
  {<<"b", "=", "7", ";", "a", "[", "0", "]", "<=>", "b">>,
   <<"b", "=", "7", ";", "a", "[", "5", "]", "<=>", "b">>,
   <<"b", "=", "7", ";", "b", "<=>", "a", "[", "2", "]">>,
   <<"a", "[", "0", "]", "<=>", "a", "[", "1", "]">>,
   <<"del", "a", "[", "0", "]">>,
   <<"a", "+", "3">>, <<"a", "-", "1">>, <<"3", "+", "a">>, <<"1", "-", "a">>,
   <<"b", "=", "a", "+", "3">>,
   <<"a", "+=", "3">>, <<"a", "-=", "1">>,
   <<"w", "=", "a", "as", "vec", ";", "w", "+=", "3">>,
   <<"w", "=", "a", "as", "vec", ";", "w", "-=", "1">>,
   <<"w", "=", "a", "as", "vec", ";", "w", "+", "3">>,
   <<"w", "=", "a", "as", "vec", ";", "w", "[", "5", "]", "=", "9">>,
   <<"w", "=", "a", "as", "vec", ";", "del", "w", "[", "0", "]">>,
   <<"w", "=", "a", "as", "set", ";", "w", "+=", "3">>,
   <<"w", "=", "a", "as", "arr", ";", "w", "[", "0", "]", "=", "9">>}
ArrPrograms ==
  {<<"a", "=">> \o ArrLit \o <<";">> \o ops \o <<";", "log", "lenof", "a">> \o Marker :
     ops \in ArrOperations}

\* <left> <op> <right> ; log 'Z'
RightOperands == {<<"log", "'R'">>, <<"(", "x", "=", "1", ")">>, <<"y">>}
\* the pairs in which the left operand decides the result
DecidedPairs ==
  {<<"false", "&&">>, <<"0", "&&">>, <<"null", "&&">>,
   <<"true", "||">>, <<"1", "||">>,
   <<"1", "??">>, <<"false", "??">>, <<"'A'", "??">>}
UndecidedPairs ==
  {<<"true", "&&">>, <<"false", "||">>, <<"null", "??">>}
ShortCircuit(pairs) ==
  {<<pair[1], pair[2]>> \o right \o Marker : pair \in pairs, right \in RightOperands}
ShortCircuitPrograms == ShortCircuit(DecidedPairs) \cup ShortCircuit(UndecidedPairs)

\* the statements of a block that is not taken
DeadBodies ==
  {<<"log", "'D'">>, <<"x", "=", "1">>, <<"y">>, <<"break">>, <<"continue">>,
   <<"log", "'}'">>,
   <<"if", "true", "{", "log", "'D'", "}">>,
   <<"x", "=", "@{", "1", "}", ";", "log", "'D'">>,
   <<"x", "=", "[", "1", "]", ";", "log", "'D'">>}
DeadBlockPrograms ==
  {<<"if", "false", "{">> \o body \o <<"}">> \o Marker : body \in DeadBodies}
  \cup
  {<<"if", "true", "{", "log", "'T'", "}", "else", "{">> \o body \o <<"}">> \o Marker :
     body \in DeadBodies}
  \cup
  {<<"if", "true", "{", "log", "'T'", "}", "else", "if", "true", "{">> \o body
     \o <<"}">> \o Marker : body \in DeadBodies}
  \cup
  {<<"if", "false", "{">> \o body \o <<"}", "else", "{", "log", "'T'", "}">> \o Marker :
     body \in DeadBodies}

\* x = 0 ; r = <head> { <break form> ; log 'D' } ; log r ; log 'Z'
LoopHeads == {<<"loop">>, <<"loop", "i", "in", "[", "1", "2", "]">>, <<"loop", "true">>}
BreakValues == {<<>>, <<"5">>, <<"'B'">>}
BreakForms(e) ==
  {<<"break">> \o e,
   <<"if", "true", "{", "break">> \o e \o <<"}">>,
   <<"if", "true", "{", "if", "true", "{", "break">> \o e \o <<"}", "}">>,
   <<"log", "'A'", ";", "break">> \o e,
   <<"x", "=", "break">> \o e}
BreakProgram(head, form) ==
  <<"x", "=", "0", ";", "r", "=">> \o head \o <<"{">> \o form
    \o <<";", "log", "'D'", "}", ";", "log", "r">> \o Marker
BreakPrograms ==
  {BreakProgram(head, form) : head \in LoopHeads,
                              form \in UNION {BreakForms(e) : e \in BreakValues}}
\* a loop inside a loop: the inner break leaves the inner loop only
NestedBreakPrograms ==
  {<<"r", "=">> \o head \o <<"{", "loop", "{", "break", "1", "}", ";", "break", "2", "}",
     ";", "log", "r">> \o Marker : head \in LoopHeads}

\* loops whose body executes continue when the counter is k
ContinueAt == {"1", "2", "3"}
ContinueForms == {<<"continue">>, <<"if", "true", "{", "continue", "}">>}
ForInContinue(k, form) ==
  <<"loop", "i", "in", "[", "1", "2", "3", "]", "{", "if", "i", "==", k, "{">> \o form
    \o <<"}", ";", "log", "i", "}">> \o Marker
WhileContinue(k, form) ==
  <<"i", "=", "0", ";", "loop", "i", "<", "3", "{", "i", "+=", "1", ";",
    "if", "i", "==", k, "{">> \o form \o <<"}", ";", "log", "i", "}">> \o Marker
InfiniteContinue(k, form) ==
  <<"i", "=", "0", ";", "loop", "{", "i", "+=", "1", ";", "if", "i", ">", "3", "{",
    "break", "}", ";", "if", "i", "==", k, "{">> \o form
    \o <<"}", ";", "log", "i", "}">> \o Marker
\* an infinite loop inside a for-in loop: continue belongs to the inner loop
NestedContinue(k, form) ==
  <<"loop", "j", "in", "[", "7", "8", "]", "{", "i", "=", "0", ";", "loop", "{",
    "i", "+=", "1", ";", "if", "i", ">", "3", "{", "break", "}", ";",
    "if", "i", "==", k, "{">> \o form \o <<"}", ";", "log", "i", "}", ";", "log", "j", "}">>
    \o Marker
ContinuePrograms ==
  UNION {{ForInContinue(k, form), WhileContinue(k, form),
          InfiniteContinue(k, form), NestedContinue(k, form)} :
         k \in ContinueAt, form \in ContinueForms}

\* loops whose body declares a const and a plain binding in every iteration
IterationEndings ==
  {<<>>, <<";", "continue">>, <<";", "break">>,
   <<";", "if", "n", "==", "2", "{", "continue", "}">>,
   <<";", "if", "n", "==", "2", "{", "break", "}">>}
Declarations == <<"const", "k", "=", "n", ";", "x", "=", "1">>
ForInScope(ending) ==
  <<"loop", "n", "in", "[", "1", "2", "3", "]", "{">> \o Declarations \o ending
    \o <<"}">> \o Marker
WhileScope(ending) ==
  <<"n", "=", "0", ";", "loop", "n", "<", "3", "{", "n", "+=", "1", ";">>
    \o Declarations \o ending \o <<"}">> \o Marker
InfiniteScope(ending) ==
  <<"n", "=", "0", ";", "loop", "{", "n", "+=", "1", ";", "if", "n", ">", "3", "{",
    "break", "}", ";">> \o Declarations \o ending \o <<"}">> \o Marker
ScopePrograms ==
  UNION {{ForInScope(ending), WhileScope(ending), InfiniteScope(ending)} :
         ending \in IterationEndings}

\* statements that end run() from outside every loop
EscapingStatements ==
  {<<"break">>, <<"break", "5">>, <<"if", "true", "{", "break", "}">>, <<"continue">>,
   <<"y">>, <<"a", "=", "null", ";", "a", "[", "0", "]">>, <<"1", "<", "'A'">>}
EscapePrograms == {<<"log", "'A'", ";">> \o st \o Marker : st \in EscapingStatements}

\* loop i in <a> .. <b> { log i } ; log 'Z'   and the same with ..=
RangeEnds == -1..3
NumLit(n) == IF n < 0 THEN <<"-", ToString(0 - n)>> ELSE <<ToString(n)>>
RangeLoop(a, op, b) ==
  <<"loop", "i", "in">> \o NumLit(a) \o <<op>> \o NumLit(b) \o <<"{", "log", "i", "}">> \o Marker
RangeLoopPrograms == {RangeLoop(a, op, b) : a \in RangeEnds, op \in {"..", "..="}, b \in RangeEnds}

\* log (<range> as <type>) ; log ' ' ; log (<range> as <type>)
RangeCast(range, type) == <<"log", "(">> \o range \o <<"as", type, ")">>
RangeCastProgram(half, closed, type) ==
  RangeCast(half, type) \o <<";", "log", "' '", ";">> \o RangeCast(closed, type)
RangeCastPrograms ==
  {RangeCastProgram(<<"0", "..", "3">>, <<"0", "..=", "3">>, type) : type \in {"vec", "arr", "str"}}
  \cup
  {RangeCastProgram(<<"(", "0", "..", "3", ")">>, <<"(", "0", "..=", "3", ")">>, type) :
     type \in {"vec", "arr", "set", "str", "ran", "xran"}}

\* log typeof (<x> as <T>) ; log 'Z'
CastSources == {<<"5">>, <<"0">>, <<"'A'">>, <<"''">>, <<"true">>, <<"null">>, <<"inf">>}
ScalarTargets == {"num", "bool", "str", "null", "inf"}
TypeofCast(x, T) == <<"log", "typeof", "(">> \o x \o <<"as", T, ")">> \o Marker
TypeofCastPrograms == {TypeofCast(x, T) : x \in CastSources, T \in ScalarTargets}

\* log typeof <range> ; log 'Z'   with and without parentheses
TypeofRange(a, op, b, paren) ==
  <<"log", "typeof">> \o (IF paren THEN <<"(">> ELSE <<>>) \o NumLit(a) \o <<op>> \o NumLit(b)
    \o (IF paren THEN <<")">> ELSE <<>>) \o Marker
TypeofRangePrograms ==
  {TypeofRange(a, op, b, paren) :
     a \in {0, 2}, op \in {"..", "..="}, b \in {0, 3}, paren \in BOOLEAN}

\* a = <aggregate> ; y = copyof a ; <mutation through y> ; log y ; log 'Z'
Aggregates ==
  {ArrLit, VecLit, SetLit, <<"[", "![", "1", "2", "]", "3", "]">>,
   <<"![", "[", "1", "2", "]", "3", "]">>, <<"![", "![", "1", "2", "]", "3", "]">>}
CopyMutations ==
  {<<"y", "[", "0", "]", "=", "9">>, <<"y", "+=", "3">>, <<"y", "-=", "1">>,
   <<"del", "y", "[", "0", "]">>, <<"y", "[", "0", "]", "[", "0", "]", "=", "9">>,
   <<"y", "+", "3">>, <<"y", "-", "1">>, <<"y", "[", "0", "]", "+", "3">>,
   <<"w", "=", "y", "[", "0", "]", ";", "w", "+=", "3">>,
   <<"del", "y", "[", "0", "]", "[", "0", "]">>,
   <<"y", "[", "0", "]", "<=>", "y", "[", "1", "]">>}
CopyProgram(agg, mutation) ==
  <<"a", "=">> \o agg \o <<";", "y", "=", "copyof", "a", ";">> \o mutation
    \o <<";", "log", "y">> \o Marker
CopyPrograms == {CopyProgram(agg, mutation) : agg \in Aggregates, mutation \in CopyMutations}

\* v = <Vec or Set> ; r = v + <x> ; log v ; log r ; log 'Z'   and r = <x> + v
AddProgram(cont, x, containerFirst) ==
  <<"v", "=">> \o cont \o <<";", "r", "=">>
    \o (IF containerFirst THEN <<"v", "+", x>> ELSE <<x, "+", "v">>)
    \o <<";", "log", "v", ";", "log", "r">> \o Marker
AddPrograms ==
  {AddProgram(cont, x, first) : cont \in {VecLit, SetLit}, x \in {"1", "3"}, first \in BOOLEAN}

\* v = ![1 2 1] ; r = v - <x> ; log r ; log 'Z'
SubProgram(x) ==
  <<"v", "=", "![", "1", "2", "1", "]", ";", "r", "=", "v", "-", x, ";", "log", "r">> \o Marker
SubPrograms == {SubProgram(x) : x \in {"1", "2", "3"}}

\* a = <x> ; b = <y> ; log (a <=> b) ; log a ; log b ; log 'Z'
SwapNames(x, y) ==
  <<"a", "=", x, ";", "b", "=", y, ";", "log", "(", "a", "<=>", "b", ")", ";",
    "log", "a", ";", "log", "b">> \o Marker
\* v = ![<x> <y>] ; log (v[0] <=> v[1]) ; log v ; log 'Z'
SwapElements(x, y) ==
  <<"v", "=", "![", x, y, "]", ";", "log", "(", "v", "[", "0", "]", "<=>",
    "v", "[", "1", "]", ")", ";", "log", "v">> \o Marker
SwapPrograms ==
  {SwapNames(x, y) : x \in {"1", "2"}, y \in {"1", "2"}}
  \cup {SwapElements(x, y) : x \in {"1", "2"}, y \in {"1", "2"}}

\* x = <e> ; log typeof <e> ; log <e> == null ; log 'Z'   for an expression e
\* that is NaN in JS, and
\* x = <start> ; x <op>= <operand> ; log typeof x ; log x == null ; log 'Z'
NaNExpressions ==
  {<<"0", "/", "0">>, <<"inf", "-", "inf">>, <<"inf", "*", "0">>, <<"inf", "/", "inf">>,
   <<"'A'", "as", "num">>, <<"'A'", "*", "2">>, <<"-", "inf", "+", "inf">>,
   <<"1", "+", "inf", "-", "inf">>}
NaNCompounds ==
  {<<"inf", "-=", "inf">>, <<"0", "/=", "0">>, <<"inf", "*=", "0">>, <<"inf", "/=", "inf">>}
NaNReport(e) == <<";", "log", "typeof">> \o e \o <<";", "log">> \o e \o <<"==", "null">> \o Marker
NaNPrograms ==
  {<<"x", "=">> \o e \o NaNReport(e) : e \in NaNExpressions}
  \cup {<<"x", "=", c[1], ";", "x", c[2], c[3]>> \o NaNReport(<<"x">>) : c \in NaNCompounds}

\* i = 0 ; v = [ <block> ; <n> ] ; log lenof v ; log 'Z'   and the same with ![
ReplicatedBlocks ==
  {<<"i", "+=", "1">>, <<"log", "i", ";", "i", "+=", "1">>, <<"log", "'A'">>}
ReplicationLengths == {<<"0">>, <<"1">>, <<"2">>, <<"3">>, <<"1", "+", "1">>}
LengthOf(n) == IF n = <<"1", "+", "1">> THEN 2 ELSE NumberOf(n[1])
ReplicationProgram(open, block, n) ==
  <<"i", "=", "0", ";", "v", "=", open>> \o block \o <<";">> \o n
    \o <<"]", ";", "log", "lenof", "v">> \o Marker
ReplicationPrograms ==
  {ReplicationProgram(open, block, n) :
     open \in {"[", "!["}, block \in ReplicatedBlocks, n \in ReplicationLengths}

\* v = <set> ; v += <x> ; v -= <y> ; ... ; log lastof v ; log 'Z'
SetMembers == {"1", "3"}
SetInits == {<<>>, <<"1", "2">>}
SetOps == {<<op, x>> : op \in {"+=", "-="}, x \in SetMembers}
MaxSetOps == 3
SetOpSeqs == UNION {[1..k -> SetOps] : k \in 0..MaxSetOps}
RECURSIVE SetStatements(_)
SetStatements(ops) ==
  IF ops = <<>> THEN <<>>
  ELSE <<"v", ops[1][1], ops[1][2], ";">> \o SetStatements(Tail(ops))
SetProgram(init, ops) ==
  <<"v", "=", "@{">> \o init \o <<"}", ";">> \o SetStatements(ops)
    \o <<"log", "lastof", "v">> \o Marker
SetPrograms == {SetProgram(init, ops) : init \in SetInits, ops \in SetOpSeqs}

\* r = <a> .. <b> ; log r has <n> ; log 'Z'   and the same with ..=
HasProgram(a, op, b, n) ==
  <<"r", "=">> \o NumLit(a) \o <<op>> \o NumLit(b) \o <<";", "log", "r", "has">> \o NumLit(n)
    \o Marker
HasPrograms ==
  {HasProgram(a, op, b, n) : a \in RangeEnds, op \in {"..", "..="}, b \in RangeEnds, n \in RangeEnds}

\* if <c1> { log 'A' } else if <c2> { log 'B' } else if <c3> { log 'D' }
\* else { log 'E' } <sep> log 'Z'   with one to three conditions, with and
\* without the final else, sep being ; or nothing
BranchLabels == <<"'A'", "'B'", "'D'">>
ConditionSeqs == UNION {[1..k -> {"true", "false"}] : k \in 1..3}
RECURSIVE IfBranches(_, _)
IfBranches(conds, j) ==
  IF j > Len(conds) THEN <<>>
  ELSE (IF j = 1 THEN <<>> ELSE <<"else">>)
         \o <<"if", conds[j], "{", "log", BranchLabels[j], "}">> \o IfBranches(conds, j + 1)
IfChain(conds, hasElse, sep) ==
  IfBranches(conds, 1) \o (IF hasElse THEN <<"else", "{", "log", "'E'", "}">> ELSE <<>>)
    \o sep \o <<"log", "'Z'">>
IfChainPrograms ==
  {IfChain(conds, hasElse, sep) :
     conds \in ConditionSeqs, hasElse \in BOOLEAN, sep \in {<<";">>, <<>>}}

\* programs that evaluate a sub-expression on another token stream: the
\* block of a replication literal, an interpolation block, the l-value of a
\* ++ / -- token; the sub-evaluation ends normally, by an error, or by a
\* break or continue that the enclosing loop catches
InBreakLoop(st) == <<"loop", "{">> \o st \o <<"}">> \o Marker
InContinueLoop(st) == <<"loop", "i", "in", "0", "..", "2", "{">> \o st \o <<"}">> \o Marker
ReplicationStreams ==
  {<<"v", "=", "[", "log", "'A'", ";", "2", "]">> \o Marker,
   <<"v", "=", "[", "y", ";", "2", "]">> \o Marker,
   InBreakLoop(<<"[", "break", ";", "2", "]">>),
   InContinueLoop(<<"![", "continue", ";", "2", "]">>)}
InterpolationStreams ==
  {<<"x", "=", "5", ";", "log", "'A{x}B'">> \o Marker,
   <<"log", "'{y}'">> \o Marker,
   InBreakLoop(<<"log", "'{break}'">>),
   InContinueLoop(<<"log", "'{continue}'">>)}
IncDecStreams ==
  {<<"x", "=", "5", ";", "log", "++x">> \o Marker,
   <<"x", "=", "5", ";", "log", "--x">> \o Marker,
   <<"x", "=", "5", ";", "log", "x++">> \o Marker,
   <<"v", "=", "![", "1", "]", ";", "log", "++v[0]">> \o Marker,
   <<"const", "c", "=", "5", ";", "++c">> \o Marker,
   <<"v", "=", "![", "1", "]", ";", "++v[y]">> \o Marker,
   InBreakLoop(<<"v", "=", "![", "1", "]", ";", "++v[break]">>)}
SubStreamPrograms == ReplicationStreams \cup InterpolationStreams \cup IncDecStreams

\* log <a> && <b> || <c>, and the same with ?? in place of ||
BoolTokens == {"true", "false"}
AndThen(a, b, op, c) == <<"log", a, "&&", b, op, c>>
AndOrPrograms ==
  {AndThen(a, b, op, c) : a \in BoolTokens, b \in BoolTokens \cup {"null"},
                          op \in {"||", "??"}, c \in BoolTokens}

\* i = 5 ; const k = 6 ; <loop> ; log 'Z'
Bindings == <<"i", "=", "5", ";", "const", "k", "=", "6", ";">>
FrameBodies == {<<>>, <<"x", "=", "1">>, <<"break">>, <<"continue">>, <<"log", "i">>}
ForInFrame(variable, body) ==
  Bindings \o <<"loop", variable, "in", "0", "..", "2", "{">> \o body \o <<"}">> \o Marker
WhileFrame(body) ==
  Bindings \o <<"n", "=", "0", ";", "loop", "n", "<", "2", "{", "n", "+=", "1", ";">>
    \o body \o <<"}">> \o Marker
InfiniteFrame(body) ==
  Bindings \o <<"loop", "{">> \o body \o (IF body = <<>> THEN <<>> ELSE <<";">>)
    \o <<"break", "}">> \o Marker
LoopFramePrograms ==
  {ForInFrame(variable, body) : variable \in {"i", "k", "j"}, body \in FrameBodies}
  \cup {WhileFrame(body) : body \in FrameBodies}
  \cup {InfiniteFrame(body) : body \in FrameBodies \ {<<"continue">>}}

\* <init> ; n = 0 ; loop x in c { <mod> ; log 'B' ; n += 1 ; if n > 3 { break } } ; log 'Z'
\* size is the number of elements of c when the loop starts
ModifiedIterables ==
  {[init |-> <<"c", "=", "![", "1", "2", "]">>, size |-> 2, mod |-> <<"c", "+=", "x">>],
   [init |-> <<"c", "=", "![", "1", "2", "]">>, size |-> 2, mod |-> <<"c", "-=", "2">>],
   [init |-> <<"c", "=", "![", "1", "2", "]">>, size |-> 2, mod |-> <<"c", "[", "0", "]", "=", "9">>],
   [init |-> <<"c", "=", "![", "1", "]">>, size |-> 1, mod |-> <<"c", "+=", "x">>],
   [init |-> <<"c", "=", "![", "]">>, size |-> 0, mod |-> <<"c", "+=", "1">>],
   [init |-> <<"c", "=", "[", "1", "2", "]">>, size |-> 2, mod |-> <<"c", "[", "1", "]", "=", "9">>],
   [init |-> <<"c", "=", "![", "1", "2", "]">>, size |-> 2, mod |-> <<"del", "c", "[", "0", "]">>],
   [init |-> <<"c", "=", "[", "1", "2", "]">>, size |-> 2, mod |-> <<"c", "=", "![", "1", "2", "3", "]">>],
   [init |-> <<"c", "=", "'A'">>, size |-> 1, mod |-> <<"c", "+=", "'A'">>],
   [init |-> <<"c", "=", "''">>, size |-> 0, mod |-> <<"c", "+=", "'A'">>],
   [init |-> <<"c", "=", "0", "..", "2">>, size |-> 2, mod |-> <<"c", "=", "0", "..", "3">>],
   [init |-> <<"c", "=", "0", "..=", "2">>, size |-> 3, mod |-> <<"c", "=", "5">>]}
IterateModified(m) ==
  m.init \o <<";", "n", "=", "0", ";", "loop", "x", "in", "c", "{">> \o m.mod
    \o <<";", "log", "'B'", ";", "n", "+=", "1", ";", "if", "n", ">", "3", "{", "break", "}",
         "}">> \o Marker
ModifiedLoopPrograms == {IterateModified(m) : m \in ModifiedIterables}

\* programs that read standard input, and the inputs they are run on: up to
\* MaxLines lines, then end-of-file
GetPrograms ==
  {<<"x", "=", "get", ";", "log", "x", ";", "y", "=", "get", ";", "log", "y">> \o Marker,
   <<"log", "get", ";", "log", "getln">> \o Marker,
   <<"x", "=", "get", "'A'", ";", "y", "=", "get", "'B'", ";", "log", "y">> \o Marker,
   <<"x", "=", "getln", ";", "log", "x", ";", "log", "get">> \o Marker,
   <<"loop", "i", "in", "0", "..", "2", "{", "log", "get", "}">> \o Marker,
   <<"x", "=", "get", ";", "log", "x", ";", "y">> \o Marker}
MaxLines == 2
RECURSIVE LinesUpTo(_)
LinesUpTo(n) ==
  IF n = 0 THEN {<<>>}
  ELSE LinesUpTo(n - 1) \cup {Append(q, line) : q \in LinesUpTo(n - 1), line \in DOMAIN SplitLine}
Inputs == LinesUpTo(MaxLines)

Programs ==
  ConstPrograms \cup ElementPrograms \cup ArrPrograms \cup ShortCircuitPrograms
  \cup DeadBlockPrograms \cup BreakPrograms \cup NestedBreakPrograms
  \cup ContinuePrograms \cup ScopePrograms \cup EscapePrograms
  \cup RangeLoopPrograms \cup RangeCastPrograms
  \cup TypeofCastPrograms \cup TypeofRangePrograms \cup CopyPrograms
  \cup AddPrograms \cup SubPrograms \cup SwapPrograms
  \cup NaNPrograms \cup ReplicationPrograms
  \cup SetPrograms \cup HasPrograms \cup IfChainPrograms
  \cup SubStreamPrograms \cup AndOrPrograms
  \cup LoopFramePrograms \cup ModifiedLoopPrograms

\* ---------------------------------------------------------------- actions
\* the fields of a Luz object the constructor returns, when no vars are passed
Constructed ==
  /\ clearVarsOnEnd \in BOOLEAN
  /\ tokens = <<>>
  /\ pos = 0
  /\ scope = EmptyMap
  /\ cells = <<>>
  /\ heap = <<>>
  /\ out = <<>>
  /\ isSkipping = FALSE
  /\ iterlog = <<>>
  /\ phase = "new"
  /\ code = Success
  /\ hooks = <<>>
  /\ stdinStack = <<>>

\* the programs of Programs read nothing: standard input is at end-of-file
Init == expr \in Programs /\ stdin = <<>> /\ Constructed

\* run(), up to the statement loop
Start ==
  /\ phase = "new"
  /\ tokens' = expr
  /\ pos' = 0
  /\ hooks' = Append(hooks, [h |-> "onStart", arg |-> Null])
  /\ phase' = "running"
  /\ UNCHANGED <<expr, clearVarsOnEnd, scope, cells, heap, out, isSkipping, iterlog, code,
                 stdin, stdinStack>>

\* one turn of the statement loop in which parseStatement returns
StatementReturns ==
  /\ phase = "running"
  /\ pos < Len(tokens)
  /\ \E r \in {parseStatement(Interp)} :
        /\ Ok(r)
        /\ pos' = r.pos
        /\ scope' = r.vars
        /\ cells' = r.cells
        /\ heap' = r.heap
        /\ out' = r.out
        /\ isSkipping' = r.isSkipping
        /\ iterlog' = r.iterlog
        /\ tokens' = r.tokens
        /\ stdin' = r.stdin
        /\ stdinStack' = r.stdinStack
  /\ UNCHANGED <<expr, clearVarsOnEnd, phase, code, hooks>>

\* one turn of the statement loop in which parseStatement throws: the catch
\* and the finally clause of run()
StatementThrows ==
  /\ phase = "running"
  /\ pos < Len(tokens)
  /\ \E r \in {parseStatement(Interp)} :
     LET c == IF r.exc.k = "break" THEN Num(Success) ELSE IF r.exc.k = "luz" THEN Num(r.exc.code) ELSE Undef
     IN /\ Caught(r)
        /\ pos' = r.pos
        /\ scope' = IF clearVarsOnEnd THEN EmptyMap ELSE r.vars
        /\ cells' = r.cells
        /\ heap' = r.heap
        /\ out' = r.out
        /\ isSkipping' = r.isSkipping
        /\ iterlog' = r.iterlog
        /\ hooks' = hooks \o runFinally(c)
        /\ phase' = IF r.exc.k = "break" THEN "threw" ELSE "returned"
        /\ code' = IF r.exc.k = "break" THEN code
                   ELSE IF c = Undef THEN RuntimeError ELSE c.n
        /\ tokens' = r.tokens
        /\ stdin' = r.stdin
        /\ stdinStack' = r.stdinStack
  /\ UNCHANGED <<expr, clearVarsOnEnd>>

\* the statement loop ends: return ExitCode.Success, then the finally clause
Finish ==
  /\ phase = "running"
  /\ pos >= Len(tokens)
  /\ phase' = "returned"
  /\ code' = Success
  /\ hooks' = hooks \o runFinally(Num(Success))
  /\ scope' = IF clearVarsOnEnd THEN EmptyMap ELSE scope
  /\ UNCHANGED <<expr, clearVarsOnEnd, tokens, pos, cells, heap, out, isSkipping, iterlog,
                 stdin, stdinStack>>

Next == Start \/ StatementReturns \/ StatementThrows \/ Finish

Spec == Init /\ [][Next]_vars

\* a program of GetPrograms on an input of Inputs. run() is synchronous: once
\* called, its statement loop takes every turn it can
InitGet == expr \in GetPrograms /\ stdin \in Inputs /\ Constructed
\* parseStatement comes back, returning or throwing: a turn of the statement
\* loop can be taken
StatementEnds ==
  /\ phase = "running"
  /\ pos < Len(tokens)
  /\ \E r \in {parseStatement(Interp)} : Ok(r) \/ Caught(r)
\* weak fairness of run(): of its entry and its exit, and of the turn of the
\* statement loop, whose enabling condition is StatementEnds
SpecGet ==
  /\ InitGet /\ [][Next]_vars
  /\ WF_vars(Start \/ Finish)
  /\ ([]<>~StatementEnds \/ []<><<StatementReturns \/ StatementThrows>>_vars)

\* ------------------------------------------------------------- properties
\* run() has returned its exit code
Returned == phase = "returned"

\* what getVars shows of a name: whether it is bound, its value, and the
\* elements of the container it holds
Bound(name) == name \in DOMAIN scope
ValueOf(name) == cells[scope[name]].value
ElementsOf(name) == heap[ValueOf(name).n].elems

\* the interpreter after the first statement of the program, the declaration
Declared ==
  parseStatement([Interp EXCEPT !.tokens = expr, !.pos = 0, !.vars = EmptyMap,
                                !.cells = <<>>, !.heap = <<>>, !.out = <<>>,
                                !.isSkipping = FALSE, !.iterlog = <<>>])

\* C1: once a name is bound by const, every later plain or compound
\* assignment to it raises SemanticError: the run ends with exit code 4, no
\* later statement runs, and the binding is the LuzVar the declaration made
C1_ConstAssignmentRejected ==
  (expr \in ConstPrograms /\ Returned) =>
    /\ code = SemanticError
    /\ out = <<>>
    /\ ~clearVarsOnEnd =>
         /\ Bound("c")
         /\ cells[scope["c"]] = Declared.cells[Declared.vars["c"]]

\* programs that assign to an element of a container a const binding holds
ConstElementPrograms == ElementProgramsOf({<<"const">>}, {ArrLit, VecLit}, IndexLits)
ConstElementInRange ==
  {ElementProgram(<<"const">>, cont, i, "=") : cont \in {ArrLit, VecLit},
                                                i \in {<<"0">>, <<"1">>}}
  \cup {DottedProgram(<<"const">>, cont, "0") : cont \in {ArrLit, VecLit}}

\* C2, as the code has it: an assignment to an element of a container held
\* by a const binding raises SemanticError: the run ends with exit code 4, no
\* later statement runs, and no container has changed
C2_ConstElementAssignmentRejected ==
  (expr \in ConstElementPrograms /\ Returned) =>
    /\ code = SemanticError
    /\ out = <<>>
    /\ heap = Declared.heap

\* const a = ![1 2] ; a[0] = 9 has ended with exit code 4 and a is ![1 2]
C2_RejectedReached ==
  /\ expr = ElementProgram(<<"const">>, VecLit, <<"0">>, "=")
  /\ Returned
  /\ code = SemanticError
  /\ heap[1].elems = <<Num(1), Num(2)>>

\* C2, as the claim states it: an assignment to an element (in range) of a
\* container held by a const binding succeeds and the element is 9 afterwards
C2_ConstElementAssignmentSucceeds ==
  (expr \in ConstElementInRange /\ Returned) =>
    /\ code = Success
    /\ \E j \in 1..Len(heap[1].elems) : heap[1].elems[j] = Num(9)

\* const c = ![1 2] or @{1 2} ; c += x or c -= x
ConstCompoundPrograms ==
  {ConstProgram(init, op, rhs) :
     init \in {VecLit, SetLit}, op \in {"+=", "-="}, rhs \in {<<"1">>, <<"3">>}}

\* C3: a compound assignment on a const binding that holds a Vec or a Set
\* fails with SemanticError and the container holds what it held before
C3_ConstCompoundLeavesContents ==
  (expr \in ConstCompoundPrograms /\ Returned) =>
    /\ code = SemanticError
    /\ heap = Declared.heap
    /\ ~clearVarsOnEnd => (Bound("c") /\ ElementsOf("c") = <<Num(1), Num(2)>>)

\* the arrays some binding holds as an Arr
ArrObjects ==
  {ValueOf(name).n : name \in {m \in DOMAIN scope : ValueOf(m).t = "arr"}}

\* C4: the length of an Arr never changes: no statement changes the length
\* of an array that a binding holds as an Arr
C4_ArrLengthFixed ==
  [][\A j \in ArrObjects : Len(heap'[j].elems) = Len(heap[j].elems)]_vars

\* a = [1 2] ; a[i] = 9 or a[i] += 9 or a.i = 9 with i outside 0..1
OutOfRangePrograms == ElementProgramsOf({<<>>}, {ArrLit}, {<<"5">>, <<"-", "1">>})

\* C5: an indexed assignment to an Arr with an index outside 0..L-1 ends the
\* run with InvalidInstruction: run() returns 8, the Arr is unchanged and no
\* later statement is executed
C5_OutOfRangeIsInvalidInstruction ==
  (expr \in OutOfRangePrograms /\ Returned) =>
    /\ code = InvalidInstruction
    /\ heap = Declared.heap
    /\ out = <<>>

\* C6: when the left operand decides the result the right operand is not
\* evaluated: it writes nothing, binds nothing and raises nothing, and the
\* statement after it runs
C6_ShortCircuitSkipsRight ==
  (expr \in ShortCircuit(DecidedPairs) /\ Returned) =>
    /\ code = Success
    /\ out = <<"Z">>
    /\ scope = EmptyMap

\* C7: no statement of a block that is not taken is evaluated: the run
\* succeeds, only the taken block and the statement after the if have
\* written output, and nothing is bound
C7_DeadBlockNotEvaluated ==
  (expr \in DeadBlockPrograms /\ Returned) =>
    /\ code = Success
    /\ out \in {<<"Z">>, <<"T", "Z">>}
    /\ scope = EmptyMap

\* what log writes for the value of break e
BreakText(e) == IF e = <<>> THEN "null" ELSE IF e = <<"5">> THEN "5" ELSE "B"

\* C8: break e anywhere in a loop body (in nested if blocks, on the right of
\* an assignment) ends the innermost loop at once and the loop evaluates to
\* e: log 'D' after it never runs, log r writes e, and an inner break leaves
\* the outer loop running
C8_BreakEndsLoopWithValue ==
  Returned =>
    /\ \A head \in LoopHeads, e \in BreakValues : \A form \in BreakForms(e) :
         expr = BreakProgram(head, form) =>
           /\ code = Success
           /\ out \in {<<BreakText(e), "Z">>, <<"A", BreakText(e), "Z">>}
    /\ expr \in NestedBreakPrograms => (code = Success /\ out = <<"2", "Z">>)

\* the counters a loop over 1 2 3 logs when continue runs at k
Skip(k) == SelectSeq(<<"1", "2", "3">>, LAMBDA t : t # k)

\* C9: in each loop shape continue ends only the current iteration of the
\* innermost loop: every other iteration logs its counter, and an outer loop
\* logs its own after each run of the inner loop
C9_ContinueEndsIterationOnly ==
  Returned =>
    \A k \in ContinueAt, form \in ContinueForms :
      /\ expr \in {ForInContinue(k, form), WhileContinue(k, form),
                   InfiniteContinue(k, form)} =>
           (code = Success /\ out = Skip(k) \o <<"Z">>)
      /\ expr = NestedContinue(k, form) =>
           (code = Success /\ out = Skip(k) \o <<"7">> \o Skip(k) \o <<"8", "Z">>)

\* the loops of ScopePrograms whose continue no loop catches
UncaughtContinueScope ==
  {InfiniteScope(ending) : ending \in {e \in IterationEndings :
                                          \E j \in 1..Len(e) : e[j] = "continue"}}

\* C10: when an iteration ends (normally, by break or by continue) every
\* binding it created is removed: the names bound after the iteration were
\* bound before it, the body's k and x are never bound between statements
\* of run(), and declaring const k again in the next iteration is no error
C10_IterationBindingsRemoved ==
  /\ \A j \in 1..Len(iterlog) : iterlog[j].after \subseteq iterlog[j].before
  /\ expr \in ScopePrograms =>
       /\ ~Bound("k") /\ ~Bound("x")
       /\ Returned => code # SemanticError
       /\ (Returned /\ expr \notin UncaughtContinueScope) =>
            (code = Success /\ out = <<"Z">>)

\* a for-in loop has run to its end; its second iteration declared const k,
\* ended by continue, and the third declared const k again
C10_RedeclaredReached ==
  /\ expr = ForInScope(<<";", "if", "n", "==", "2", "{", "continue", "}">>)
  /\ Returned
  /\ code = Success
  /\ Len(iterlog) = 3
  /\ iterlog[2].how = "continue"
  /\ "k" \in iterlog[2].atEnd /\ "k" \notin iterlog[2].after
  /\ "k" \in iterlog[3].atEnd /\ "k" \notin iterlog[3].after

\* the hooks run() has called, in order
HookNames == [j \in 1..Len(hooks) |-> hooks[j].h]
Ended == phase \in {"returned", "threw"}

\* C11: in a call of run(), onStart is called once before any statement is
\* evaluated; then exactly one of onSuccess / onError is called, and onEnd is
\* called once, last, whether run() returns Success, returns an error code or
\* lets a BreakSignal through.
C11_HooksOnceInOrder ==
  /\ phase = "new" => (hooks = <<>> /\ out = <<>> /\ cells = <<>> /\ heap = <<>>)
  /\ phase = "running" => HookNames = <<"onStart">>
  /\ Ended => HookNames \in {<<"onStart", "onSuccess", "onEnd">>,
                             <<"onStart", "onError", "onEnd">>}
C11_ErrorPathReached ==
  /\ expr = <<"log", "'A'", ";", "y">> \o Marker
  /\ Returned /\ code = SemanticError /\ out = <<"A">>
  /\ HookNames = <<"onStart", "onError", "onEnd">>

\* C12: onSuccess is called only when every statement completed and run()
\* returns Success; when evaluation ends by an error, with or without a code
\* of its own, or by a BreakSignal outside every loop, onError is called, and
\* onError and onEnd are given the code run() returns.
C12_HooksAgreeWithRun ==
  Ended =>
    /\ hooks[2].h = "onSuccess" => (Returned /\ code = Success /\ pos >= Len(tokens))
    /\ (phase = "threw" \/ code # Success) =>
         (hooks[2] = [h |-> "onError", arg |-> Num(code)] /\ hooks[3].arg = Num(code))

\* the texts of the numbers from a towards b, n of them
Stepping(a, b, n) ==
  [j \in 1..n |-> ToString(a + (j - 1) * (IF b > a THEN 1 ELSE IF b < a THEN -1 ELSE 0))]
Distance(a, b) == IF b > a THEN b - a ELSE a - b

\* C13: for integers a and b, iterating a..b yields |b - a| elements (none
\* when a = b, never b) and iterating a..=b yields |b - a| + 1 elements (a
\* alone when a = b), stepping by sign(b - a) from a.
C13_RangeIteration ==
  Returned =>
    \A a \in RangeEnds, b \in RangeEnds :
      /\ expr = RangeLoop(a, "..", b) =>
           (code = Success /\ out = Stepping(a, b, Distance(a, b)) \o <<"Z">>)
      /\ expr = RangeLoop(a, "..=", b) =>
           (code = Success /\ out = Stepping(a, b, Distance(a, b) + 1) \o <<"Z">>)
C13_DescendingReached ==
  /\ expr = RangeLoop(2, "..=", -1) /\ Returned
  /\ out = <<"2", "1", "0", "-1", "Z">> /\ Len(iterlog) = 4

\* C14: a cast written after a range without inner parentheses applies to
\* the whole range: log (0..3 as vec); log ' '; log (0..=3 as vec) writes
\* ![0 1 2], a space and ![0 1 2 3], and run() returns Success.
C14_CastAppliesToWholeRange ==
  (expr = RangeCastProgram(<<"0", "..", "3">>, <<"0", "..=", "3">>, "vec") /\ Returned) =>
    (code = Success /\ out = <<"![0 1 2]", " ", "![0 1 2 3]">>)

\* C15: for a scalar type tag T and a value x for which x as T does not raise,
\* typeof reports T for the result of the cast.
C15_TypeofCastIsTarget ==
  \A x \in CastSources, T \in ScalarTargets :
    (expr = TypeofCast(x, T) /\ Returned /\ code = Success) => out = <<T, "Z">>

\* C16: typeof of a half-open range a..b is "ran" and typeof of a closed range
\* a..=b is "xran".
C16_TypeofRange ==
  \A a \in {0, 2}, b \in {0, 3}, paren \in BOOLEAN :
    /\ (expr = TypeofRange(a, "..", b, paren) /\ Returned) =>
         (code = Success /\ out = <<"ran", "Z">>)
    /\ (expr = TypeofRange(a, "..=", b, paren) /\ Returned) =>
         (code = Success /\ out = <<"xran", "Z">>)

\* C17: after y = copyof a for an aggregate a, possibly nested, no mutation
\* reached through y (element assignment, +=, -=, del y[i], a mutation of a
\* nested aggregate) changes the contents of a: the objects the declaration of
\* a created stay as they were, and a stays bound to the same one.
C17_CopyIsIndependent ==
  expr \in CopyPrograms =>
    /\ Len(heap) > 0 => SubSeq(heap, 1, Len(Declared.heap)) = Declared.heap
    /\ Bound("a") => ValueOf("a") = Declared.cells[Declared.vars["a"]].value
C17_NestedMutationReached ==
  /\ expr = CopyProgram(<<"[", "![", "1", "2", "]", "3", "]">>,
                        <<"y", "[", "0", "]", "[", "0", "]", "=", "9">>)
  /\ Returned /\ code = Success /\ out = <<"[![9 2] 3]", "Z">>
  /\ Bound("a") /\ asStr(heap, ValueOf("a"), {}) = "[![1 2] 3]"

\* C18: v + x and x + v, v a name bound to a Vec or a Set, leave the
\* container of v unchanged; the result is another container, holding the
\* elements of v and x (appended by v + x, put first by x + v).
C18_AddLeavesOperandUnchanged ==
  Returned =>
    \A x \in {"1", "3"}, first \in BOOLEAN :
      /\ expr = AddProgram(VecLit, x, first) =>
           /\ code = Success
           /\ out = <<"![1 2]",
                      IF first THEN "![1 2 " \o x \o "]" ELSE "![" \o x \o " 1 2]", "Z">>
           /\ Bound("r") => ValueOf("r").n # ValueOf("v").n
      /\ expr = AddProgram(SetLit, x, first) =>
           /\ code = Success
           /\ out = <<"@{1 2}", IF x = "1" THEN "@{1 2}" ELSE "@{1 2 " \o x \o "}", "Z">>
           /\ Bound("r") => ValueOf("r").n # ValueOf("v").n

\* C19: for a Vec v, v - x evaluates to a Vec holding the elements of v
\* without the last occurrence of x (all of them when x does not occur).
C19_SubRemovesLastOccurrence ==
  Returned =>
    /\ expr = SubProgram("1") => (code = Success /\ out = <<"![1 2]", "Z">>)
    /\ expr = SubProgram("2") => (code = Success /\ out = <<"![1 1]", "Z">>)
    /\ expr = SubProgram("3") => (code = Success /\ out = <<"![1 2 1]", "Z">>)

\* C20: a <=> b on two l-values (names or indexed elements) leaves a holding
\* the previous value of b and b the previous value of a; the expression is
\* true when the two values differed and false when they were identical.
C20_SwapExchangesAndReports ==
  Returned =>
    \A x \in {"1", "2"}, y \in {"1", "2"} :
      /\ expr = SwapNames(x, y) =>
           (code = Success /\ out = <<IF x = y THEN "false" ELSE "true", y, x, "Z">>)
      /\ expr = SwapElements(x, y) =>
           (code = Success
            /\ out = <<IF x = y THEN "false" ELSE "true", "![" \o y \o " " \o x \o "]", "Z">>)

\* C21: an expression or compound assignment whose arithmetic is NaN yields
\* null: the binding made from it holds null with type tag "null", typeof
\* reports "null" and the value equals null
C21_NaNBecomesNull ==
  (expr \in NaNPrograms /\ Returned /\ ~clearVarsOnEnd) =>
    /\ code = Success
    /\ Bound("x") /\ ValueOf("x") = Null /\ cells[scope["x"]].type = "null"
    /\ out = <<"null", "true", "Z">>

\* what the n evaluations of a block write, in order
BlockOutput(block, n) ==
  [j \in 1..n |-> IF block = <<"log", "'A'">> THEN "A"
                  ELSE IF block = <<"i", "+=", "1">> THEN "" ELSE ToString(j - 1)]

\* C22: a literal [e ; n] or ![e ; n] evaluates the block e n times, in the
\* order of the indices, and makes a container of n elements: the j-th
\* element is what the j-th evaluation returned, and what the block logs and
\* adds to i happens n times
C22_BlockEvaluatedPerIndex ==
  \A open \in {"[", "!["}, block \in ReplicatedBlocks, n \in ReplicationLengths :
    (expr = ReplicationProgram(open, block, n) /\ Returned /\ ~clearVarsOnEnd) =>
      /\ code = Success
      /\ ValueOf("v").t = (IF open = "[" THEN "arr" ELSE "vec")
      /\ Len(ElementsOf("v")) = LengthOf(n)
      /\ out = SelectSeq(BlockOutput(block, LengthOf(n)), LAMBDA x : x # "")
                 \o <<ToString(LengthOf(n)), "Z">>
      /\ IF block = <<"log", "'A'">>
         THEN ElementsOf("v") = [j \in 1..LengthOf(n) |-> Str("A")] /\ ValueOf("i") = Num(0)
         ELSE ElementsOf("v") = [j \in 1..LengthOf(n) |-> Num(j)]
              /\ ValueOf("i") = Num(LengthOf(n))

\* a block that logs and counts was evaluated three times
C22_ThreeEvaluationsReached ==
  /\ expr = ReplicationProgram("![", <<"log", "i", ";", "i", "+=", "1">>, <<"3">>)
  /\ Returned /\ ~clearVarsOnEnd
  /\ out = <<"0", "1", "2", "3", "Z">>

\* the elements of a set, the one added longest ago first: an add moves the
\* element to the end, a delete removes it
RECURSIVE ByLastAdd(_, _)
ByLastAdd(order, ops) ==
  IF ops = <<>> THEN order
  ELSE ByLastAdd(SelectSeq(order, LAMBDA y : y # ops[1][2])
                   \o (IF ops[1][1] = "+=" THEN <<ops[1][2]>> ELSE <<>>),
                 Tail(ops))

\* C23: after a sequence of adds and deletes lastof gives the element of the
\* set whose latest add is the most recent, and null when the set is empty
C23_LastIsLatestAddedSurvivor ==
  \A init \in SetInits, ops \in SetOpSeqs :
    (expr = SetProgram(init, ops) /\ Returned) =>
      LET order == ByLastAdd(init, ops)
      IN /\ code = Success
         /\ out = <<IF order = <<>> THEN "null" ELSE order[Len(order)], "Z">>

\* C24: r has n is true exactly when iterating r yields n: a..b holds the
\* |b - a| numbers from a towards b without b, a..=b holds b as well, for
\* ascending and descending ranges
C24_HasAgreesWithIteration ==
  \A a \in RangeEnds, op \in {"..", "..="}, b \in RangeEnds, n \in RangeEnds :
    (expr = HasProgram(a, op, b, n) /\ Returned) =>
      LET yielded == Stepping(a, b, Distance(a, b) + (IF op = "..=" THEN 1 ELSE 0))
      IN /\ code = Success
         /\ out = <<IF \E j \in 1..Len(yielded) : yielded[j] = ToString(n)
                    THEN "true" ELSE "false", "Z">>

\* what the branch taken by a chain logs
BranchTaken(conds, hasElse) ==
  IF \E j \in 1..Len(conds) : conds[j] = "true"
  THEN <<StrLit[BranchLabels[CHOOSE j \in 1..Len(conds) :
                               conds[j] = "true" /\ \A m \in 1..(j - 1) : conds[m] = "false"]]>>
  ELSE IF hasElse THEN <<"E">> ELSE <<>>

\* C25: whichever branch of an if / else if / else chain is taken, the
\* statement after the chain runs exactly once, with or without a ; between
\* the chain and the statement
C25_StatementAfterChainRuns ==
  \A conds \in ConditionSeqs, hasElse \in BOOLEAN, sep \in {<<";">>, <<>>} :
    (expr = IfChain(conds, hasElse, sep) /\ Returned) =>
      (code = Success /\ out = BranchTaken(conds, hasElse) \o <<"Z">>)

\* C26: when a statement that evaluated a sub-expression on another token
\* stream has ended, by returning or by throwing, the interpreter is back on
\* the stream of the program, inside it, and a run that returns Success has
\* run the statement after
C26_StreamPutBack ==
  (expr \in SubStreamPrograms /\ phase # "new") =>
    /\ tokens = expr
    /\ pos <= Len(expr)
    /\ (Returned /\ code = Success) => out[Len(out)] = "Z"

\* what (a && b) <op> c is, for the tokens a, b, c
Grouped(a, b, op, c) ==
  LET ab == IF a = "false" THEN a ELSE b
  IN  CASE op = "||" -> IF ab = "true" THEN ab ELSE c
        [] op = "??" -> IF ab = "null" THEN c ELSE ab

\* C27: && binds tighter than || and ??: log a && b || c logs (a && b) || c,
\* log a && b ?? c logs (a && b) ?? c
C27_AndBindsTighter ==
  (expr \in AndOrPrograms /\ Returned) =>
    /\ code = Success
    /\ out = <<Grouped(expr[2], expr[4], expr[5], expr[6])>>

\* C28: a loop removes only bindings it introduced: i and k, bound before the
\* loop and not deleted by its body, are bound after it, k still const and i not
C28_LoopKeepsOuterBindings ==
  (expr \in LoopFramePrograms /\ Returned /\ code = Success) =>
    /\ Bound("i") /\ ~cells[scope["i"]].const
    /\ Bound("k") /\ cells[scope["k"]].const

\* how many times x was logged
Count(q, x) == Cardinality({j \in 1..Len(q) : q[j] = x})

\* C29: a for-in loop over a value that has n elements when the loop starts runs
\* its body at most n times, whatever the body does to the iterated value
C29_AtMostInitialSize ==
  \A m \in ModifiedIterables :
    (expr = IterateModified(m) /\ phase # "new") => Count(out, "B") <= m.size

\* the statement run() is about to execute calls get
RECURSIVE UpToSemicolon(_, _)
UpToSemicolon(q, j) ==
  IF j > Len(q) \/ q[j] = ";" THEN {} ELSE {q[j]} \cup UpToSemicolon(q, j + 1)
AtGet == phase = "running" /\ "get" \in UpToSemicolon(tokens, pos + 1)

\* C30: every get call eventually returns, also when standard input has reached
\* end-of-file: a statement that calls get is eventually over
C30_GetReturns == AtGet ~> ~AtGet

====
